---- MODULE Spec2Model ----
(***************************************************************************)
(* Model of the Doubao speech-recognition client of billTotext            *)
(* (src/doubao_asr.py, class DoubaoASREngine).                            *)
(*                                                                         *)
(* One call of recognize_audio_file is modelled: the foreground driver    *)
(* (recognize_audio_file -> recognize_audio_file_http ->                  *)
(* recognize_audio_file_ws) steps through the code one shared-field       *)
(* access at a time, and the websocket listener threads (one per          *)
(* WebSocketApp that was started) run their callbacks (_on_ws_open,       *)
(* _on_ws_message) interleaved with it.  The engine's fields are shared   *)
(* by every attempt made on the instance, exactly as in the class.        *)
(*                                                                         *)
(* Modelling assumptions:                                                  *)
(*  - the file system does not change during the call (os.path.exists     *)
(*    answers the same at every check);                                    *)
(*  - result texts carried by server frames are strings;                   *)
(*  - no timing: a timeout may fire whenever the awaited signal is unset   *)
(*    and a thread may be delayed for any time.                            *)
(*  - the installation is in place: the ffmpeg executable can be started  *)
(*    (subprocess.run returns the output of the process or raises          *)
(*    CalledProcessError) and the working folders of src/utils.py can be   *)
(*    created.                                                             *)
(*                                                                         *)
(* Four parts of the class have specifications of their own: the          *)
(* chunking of the send loop (SpecChunk), the handling of one inbound     *)
(* frame by _on_ws_message, decoded by _parse_server_response             *)
(* (SpecParse), the frame encoders (SpecEncode) and the audio decoding of *)
(* _load_audio_file (SpecLoad), each applied to every input of a bounded  *)
(* set.  SpecLive is Spec with the foreground thread scheduled fairly.    *)
(* Two callers of the engine are modelled as well: download_video of      *)
(* src/utils.py (SpecDownload) and the /api/convert handler of src/api.py *)
(* (SpecConvert).                                                          *)
(***************************************************************************)
EXTENDS Integers, Sequences, FiniteSets, TLC

\* ------------------------------------------------------------------ bounds
\* Longest decoded PCM buffer (in bytes) the decoder may return.
MaxAudio == 3
\* chunk_size of the send loop (900000 in the source), scaled down so that
\* buffers of zero, one and several chunks fit under MaxAudio.
chunk_size == 2
\* Number of inbound messages one listener thread dispatches.
MaxMsgs == 2
\* max_wait of the result poll loop (60.0 in the source), scaled down.
max_wait == 2
\* Longest buffer of the chunking specification.
MaxBuf == 5

\* --------------------------------------------------------- program constants
\* recognize_audio_file_ws has two call sites in one recognize_audio_file
\* call: the except clause of recognize_audio_file_http and the except
\* clause of recognize_audio_file.
WsCallSites == 2

Attempts == 1 .. WsCallSites

\* Result texts: those a partial-result frame may carry, those a
\* final-result frame may carry, and all of them (also for an HTTP body).
PartialTexts == {"", "a"}
FinalTexts == {"", "b"}
Texts == PartialTexts \cup FinalTexts
\* Python's None in _final_result / a value not yet produced.
None == "<None>"

\* MessageType (IntEnum)
FULL_CLIENT_REQUEST == 1
AUDIO_ONLY_REQUEST == 2
FULL_SERVER_RESPONSE == 9
ERROR_RESPONSE == 15
\* SerializationMethod.JSON and CompressionType.GZIP (NONE is 0 in both)
JSON == 1
GZIP == 1

\* The status header value that means success in recognize_audio_file_http.
SUCCESS_STATUS == "20000000"

VARIABLES
    \* ---- input and call-level control
    path_exists,      \* os.path.exists(audio_path)
    file_size,        \* size of the file at audio_path: 0, or 1 for any
                      \* positive number of bytes
    pc,               \* position of the foreground driver
    via,              \* call site of the running recognize_audio_file_ws
    outcome,          \* "running" | "returned" | "raised" of recognize_audio_file
    result,           \* text returned by recognize_audio_file
    exc,              \* exception in flight / raised to the caller
    errFrom,          \* engine that raised exc: "batch" | "stream"
    \* ---- batch engine
    posts,            \* number of requests.post calls
    batch,            \* "none" | "ok" | "failed"
    http_hdr,         \* X-Api-Status-Code of the response
    http_body,        \* response body
    \* ---- session fields of the engine (self._*)
    ws,               \* self._ws: 0 is None, else the attempt that created it
    ws_thread,        \* self._ws_thread: 0 is None
    stop_event,
    connected_event,
    ready_event,
    current_result,
    final_result,
    sequence_number,
    \* ---- one listener thread / socket per started attempt
    lst,              \* state of the listener thread of each attempt
    sock,             \* self._ws.sock: "none" | "connected" | "closed"
    wire,             \* frames written to the socket of self._ws, in order
    msgs,             \* inbound messages dispatched on that socket
    \* ---- locals of recognize_audio_file_ws
    attempt,          \* number of attempts that started (sockets created)
    wsCalls,          \* number of calls of recognize_audio_file_ws
    audio_data,
    i,                \* loop variable of the send loop
    wait_time,
    retval,           \* value read by "return self._final_result"
    wsErr,            \* exception raised in the try block, "none" if none
    \* ---- history of the current attempt (since its reset)
    nFinals,          \* final results recorded by listeners (2: several)
    firstFinal,       \* the text of the first of them
    lateFinal,        \* a final was recorded after the driver's post-loop check
    latePartial,      \* a partial was recorded after the poll loop ended
    sendFail,         \* first send that failed or connection loss while the
                      \* attempt was sending: "none" | "config" | "chunk" |
                      \* "eos" | "lost"
    \* ---- chunking specification
    buf, off, chunks, cdone,
    \* ---- frame decoding specification
    frame,            \* the frame a server sent, by its fields
    inbound,          \* the bytes handed to _parse_server_response
    parsed,           \* what _parse_server_response did with them
    handled,          \* _on_ws_message is done with the message
    \* ---- frame encoding specification
    call,             \* a call of an encoder, by its arguments
    encoded,          \* the bytes it returned
    \* ---- audio decoding specification
    ffmpeg,           \* whether the file exists and what the two runs do
    loaded,           \* what _load_audio_file did
    \* ---- download and /api/convert specifications
    download,         \* a call of download_video: arguments, proxy of the
                      \* environment, what the you-get runs do, the files
                      \* in the output directory afterwards
    downloaded,       \* what download_video did
    request,          \* the video_url of a request to /api/convert
    api               \* convert_video: position, calls made, response

sessionVars == <<ws, ws_thread, stop_event, connected_event, ready_event,
                 current_result, final_result, sequence_number>>
listenerVars == <<lst, sock, wire, msgs>>
callVars == <<path_exists, pc, via, outcome, result, exc, errFrom>>
batchVars == <<posts, batch, http_hdr, http_body>>
localVars == <<attempt, wsCalls, audio_data, i, wait_time, retval, wsErr>>
histVars == <<nFinals, firstFinal, lateFinal, latePartial>>
chunkVars == <<buf, off, chunks, cdone>>
failVars == <<sendFail>>
codecVars == <<frame, inbound, parsed, handled, call, encoded>>
fileVars == <<file_size>>
loadVars == <<ffmpeg, loaded>>
utilVars == <<download, downloaded, request, api>>

vars == <<callVars, batchVars, sessionVars, listenerVars, localVars, histVars, chunkVars,
          codecVars, fileVars, loadVars, utilVars, failVars>>

\* ------------------------------------------------------------------ helpers
\* Slice with the end of the slice one byte early.
Slice_short(data, k, size) ==
    SubSeq(data, k + 1, IF k + size - 1 < Len(data) THEN k + size - 1 ELSE Len(data))

\* data[k : k + size]  (Python slice, 0-based k)
Slice(data, k, size) ==
    SubSeq(data, k + 1, IF k + size < Len(data) THEN k + size ELSE Len(data))

\* A decoded PCM buffer of n bytes; byte k is k, so that a payload tells
\* its offset.
Pcm(n) == [k \in 1 .. n |-> k]

\* What run(cmd, capture_output=True, check=True) of an ffmpeg command does:
\* it returns the stdout of the process, or raises CalledProcessError.
RunResult(ok, out) == [ok |-> ok, out |-> out]

\* self._ws and self._ws.sock and self._ws.sock.connected
SockUsable == ws # 0 /\ sock = "connected"

\* ------------------------------------------------------- frame decoding
\* Bytes are integers 0 .. 255, a bytes object is a sequence of them.
\* (b >> 4) & 0x0F and b & 0x0F
Hi(b) == (b \div 16) % 16
Lo(b) == b % 16

\* Python's s[a:b]: a negative index counts from the end, indexes are
\* clamped to the length, an empty range gives the empty sequence.
PyIndex(k, n) == IF k < 0 THEN (IF k + n < 0 THEN 0 ELSE k + n) ELSE (IF k > n THEN n ELSE k)
PySlice(s, a, b) ==
    LET lo == PyIndex(a, Len(s))
        hi == PyIndex(b, Len(s))
    IN IF lo >= hi THEN <<>> ELSE SubSeq(s, lo + 1, hi)

\* int.from_bytes(bs, "big", signed=...) of four bytes
from_bytes(bs, signed) ==
    LET top == IF signed /\ bs[1] >= 128 THEN bs[1] - 256 ELSE bs[1]
    IN top * 16777216 + bs[2] * 65536 + bs[3] * 256 + bs[4]

\* The payloads of the decoding specification, as UTF-8 bytes:
\*   {"code":1000}   {"code":1001}   {}   []   10   1   {   and one byte
\*   0xFF, which no UTF-8 text contains.
DocOk == <<123, 34, 99, 111, 100, 101, 34, 58, 49, 48, 48, 48, 125>>
DocOtherCode == <<123, 34, 99, 111, 100, 101, 34, 58, 49, 48, 48, 49, 125>>
DocNoCode == <<123, 125>>
DocList == <<91, 93>>
DocTen == <<49, 48>>
DocOne == <<49>>
DocBadJson == <<123>>
DocNotUtf8 == <<255>>
\* {"code":1000,"result":[{"text":"a"}]}
DocPartial == <<123, 34, 99, 111, 100, 101, 34, 58, 49, 48, 48, 48, 44, 34, 114, 101,
    115, 117, 108, 116, 34, 58, 91, 123, 34, 116, 101, 120, 116, 34, 58, 34, 97, 34,
    125, 93, 125>>
\* {"code":1000,"result":[{"text":"b","definite":true}]}
DocFinal == <<123, 34, 99, 111, 100, 101, 34, 58, 49, 48, 48, 48, 44, 34, 114, 101, 115,
    117, 108, 116, 34, 58, 91, 123, 34, 116, 101, 120, 116, 34, 58, 34, 98, 34, 44, 34,
    100, 101, 102, 105, 110, 105, 116, 101, 34, 58, 116, 114, 117, 101, 125, 93, 125>>
\* {"code":1000,"result":{"text":"b","is_final":true}}
DocFinalDict == <<123, 34, 99, 111, 100, 101, 34, 58, 49, 48, 48, 48, 44, 34, 114, 101,
    115, 117, 108, 116, 34, 58, 123, 34, 116, 101, 120, 116, 34, 58, 34, 98, 34, 44, 34,
    105, 115, 95, 102, 105, 110, 97, 108, 34, 58, 116, 114, 117, 101, 125, 125>>
\* {"code":1000,"result":[]}
DocEmptyResult == <<123, 34, 99, 111, 100, 101, 34, 58, 49, 48, 48, 48, 44, 34, 114,
    101, 115, 117, 108, 116, 34, 58, 91, 93, 125>>
\* {"code":1001,"result":[{"text":"a"}]}
DocErrResult == <<123, 34, 99, 111, 100, 101, 34, 58, 49, 48, 48, 49, 44, 34, 114, 101,
    115, 117, 108, 116, 34, 58, 91, 123, 34, 116, 101, 120, 116, 34, 58, 34, 97, 34,
    125, 93, 125>>

\* The "result" member of a response, as far as _on_ws_message looks at it:
\* absent, an empty list ("empty"), or a dict, alone ("dict") or as the first
\* item of a list ("list"), with its "text", "definite" and "is_final"
\* members.
ResultValue(shape, text, definite, is_final) ==
    [shape |-> shape, text |-> text, definite |-> definite, is_final |-> is_final]
NoResult == ResultValue("absent", "", FALSE, FALSE)

\* A JSON value, as far as _parse_server_response and _on_ws_message look at
\* it: whether it is a dict, its "code" member and its "result" member.
JsonValue(t, has_code, code) ==
    [t |-> t, has_code |-> has_code, code |-> code, result |-> NoResult]
JsonResult(code, r) == [JsonValue("dict", TRUE, code) EXCEPT !.result = r]
NoValue == JsonValue("absent", FALSE, 0)

\* bytes.decode('utf-8'): raises UnicodeDecodeError on an invalid sequence;
\* the only byte above 0x7F the specification uses is 0xFF.
Utf8Ok(bs) == \A k \in DOMAIN bs : bs[k] < 128

\* json.loads of a decoded text: the value, or JSONDecodeError for a text
\* that is not a JSON document (every other text of the specification is a
\* proper prefix of one of the documents above, or empty).
json_loads(bs) ==
    CASE bs = DocOk -> [ok |-> TRUE, val |-> JsonValue("dict", TRUE, 1000)]
      [] bs = DocOtherCode -> [ok |-> TRUE, val |-> JsonValue("dict", TRUE, 1001)]
      [] bs = DocNoCode -> [ok |-> TRUE, val |-> JsonValue("dict", FALSE, 0)]
      [] bs = DocList -> [ok |-> TRUE, val |-> JsonValue("list", FALSE, 0)]
      [] bs = DocTen -> [ok |-> TRUE, val |-> JsonValue("int", FALSE, 10)]
      [] bs = DocOne -> [ok |-> TRUE, val |-> JsonValue("int", FALSE, 1)]
      [] bs = DocPartial ->
           [ok |-> TRUE, val |-> JsonResult(1000, ResultValue("list", "a", FALSE, FALSE))]
      [] bs = DocFinal ->
           [ok |-> TRUE, val |-> JsonResult(1000, ResultValue("list", "b", TRUE, FALSE))]
      [] bs = DocFinalDict ->
           [ok |-> TRUE, val |-> JsonResult(1000, ResultValue("dict", "b", FALSE, TRUE))]
      [] bs = DocEmptyResult ->
           [ok |-> TRUE, val |-> JsonResult(1000, ResultValue("empty", "", FALSE, FALSE))]
      [] bs = DocErrResult ->
           [ok |-> TRUE, val |-> JsonResult(1001, ResultValue("list", "a", FALSE, FALSE))]
      [] OTHER -> [ok |-> FALSE, val |-> NoValue]

\* gzip: a compressed buffer starts with the magic bytes 1f 8b; the deflate
\* stream and the trailer are abstracted to the stored bytes.
\* gzip.decompress raises on a buffer that does not start with the magic.
GzipMagic == <<31, 139>>
gzip_compress(bs) == GzipMagic \o bs
gzip_decompress(bs) ==
    IF Len(bs) >= 2 /\ SubSeq(bs, 1, 2) = GzipMagic
      THEN [ok |-> TRUE, out |-> SubSeq(bs, 3, Len(bs))]
      ELSE [ok |-> FALSE, out |-> <<>>]

\* ------------------------------------------------------- frame encoding
\* struct.pack('>I', n): four bytes, big-endian.
U32(n) == <<(n \div 16777216) % 256, (n \div 65536) % 256, (n \div 256) % 256, n % 256>>

\* MessageFlags.NONE and MessageFlags.LAST_PACKET
NONE == 0
LAST_PACKET == 2
\* MessageFlags.SEQUENCE_NUMBER and MessageFlags.SEQUENCE_NUMBER_LAST
SEQUENCE_NUMBER == 1
SEQUENCE_NUMBER_LAST == 3

\* _build_header with the message type in the low nibble of byte 1.
_build_header_swapped(msg_type, flags, serialization, compression) ==
    LET byte0 == 16 * 1 + 1
        byte1 == 16 * flags + msg_type
        byte2 == 16 * serialization + compression
        byte3 == 0
    IN <<byte0, byte1, byte2, byte3>>

\* _build_header, lines 98-110.  (x << 4) | y of two nibbles is 16 * x + y.
_build_header(msg_type, flags, serialization, compression) ==
    LET byte0 == 16 * 1 + 1
        byte1 == 16 * msg_type + flags
        byte2 == 16 * serialization + compression
        byte3 == 0
    IN <<byte0, byte1, byte2, byte3>>

\* json.dumps(payload).encode('utf-8') of the configuration (lines 116-142);
\* the members of the object are abstracted away.
ConfigJson == <<123, 125>>

\* _build_full_client_request, lines 112-155.
_build_full_client_request ==
    LET payload_bytes == gzip_compress(ConfigJson)
        payload_size == Len(payload_bytes)
        header == _build_header(FULL_CLIENT_REQUEST, NONE, JSON, GZIP)
    IN header \o U32(payload_size) \o payload_bytes

\* _build_audio_request sending the sequence counter: the sequence flag in
\* the header and the counter before the size.
_build_audio_request_withSequence(audio_data_, is_last) ==
    LET header == _build_header(AUDIO_ONLY_REQUEST, SEQUENCE_NUMBER, NONE, NONE)
        payload_size == Len(audio_data_)
    IN header \o U32(sequence_number) \o U32(payload_size) \o audio_data_

\* _build_audio_request writing the flag of the last packet into the header.
_build_audio_request_lastFlag(audio_data_, is_last) ==
    LET header == _build_header(AUDIO_ONLY_REQUEST, IF is_last THEN LAST_PACKET ELSE NONE,
                                NONE, NONE)
        payload_size == Len(audio_data_)
    IN header \o U32(payload_size) \o audio_data_

\* _build_audio_request with the size field counting the header as well.
_build_audio_request_sizeOfFrame(audio_data_, is_last) ==
    LET header == _build_header(AUDIO_ONLY_REQUEST, NONE, NONE, NONE)
        payload_size == Len(audio_data_) + 4
    IN header \o U32(payload_size) \o audio_data_

\* _build_audio_request, lines 157-168; is_last is not used.
_build_audio_request(audio_data_, is_last) ==
    LET header == _build_header(AUDIO_ONLY_REQUEST, NONE, NONE, NONE)
        payload_size == Len(audio_data_)
    IN header \o U32(payload_size) \o audio_data_

\* What a call of _parse_server_response does: it returns None, an error
\* value ({"error": True, ...} with the parsed value as "data"), the parsed
\* dict, or it raises.
Parsed(kind, val) == [kind |-> kind, val |-> val]
ReturnsNone == Parsed("none", NoValue)
NotParsed == Parsed("idle", NoValue)

\* The payload-message step with the length of the payload not validated
\* against the declared size.
PayloadMsg_noLengthCheck(msg_type, payload) ==
    IF msg_type = FULL_SERVER_RESPONSE
      THEN IF Len(payload) < 4 THEN [none |-> TRUE, msg |-> <<>>]
           ELSE LET payload_size == from_bytes(PySlice(payload, 0, 4), TRUE)
                IN [none |-> FALSE, msg |-> PySlice(payload, 4, 4 + payload_size)]
    ELSE IF msg_type = ERROR_RESPONSE
      THEN IF Len(payload) < 8 THEN [none |-> TRUE, msg |-> <<>>]
           ELSE LET payload_size == from_bytes(PySlice(payload, 4, 8), FALSE)
                IN [none |-> FALSE, msg |-> PySlice(payload, 8, 8 + payload_size)]
    ELSE [none |-> TRUE, msg |-> <<>>]

\* lines 187-204: payload_msg, or None when the payload is shorter than
\* declared or the message type is neither of the two server types.
PayloadMsg(msg_type, payload) ==
    IF msg_type = FULL_SERVER_RESPONSE
      THEN IF Len(payload) < 4 THEN [none |-> TRUE, msg |-> <<>>]
           ELSE LET payload_size == from_bytes(PySlice(payload, 0, 4), TRUE)
                IN IF Len(payload) < 4 + payload_size
                     THEN [none |-> TRUE, msg |-> <<>>]
                     ELSE [none |-> FALSE, msg |-> PySlice(payload, 4, 4 + payload_size)]
    ELSE IF msg_type = ERROR_RESPONSE
      THEN IF Len(payload) < 8 THEN [none |-> TRUE, msg |-> <<>>]
           ELSE LET payload_size == from_bytes(PySlice(payload, 4, 8), FALSE)
                IN IF Len(payload) < 8 + payload_size
                     THEN [none |-> TRUE, msg |-> <<>>]
                     ELSE [none |-> FALSE, msg |-> PySlice(payload, 8, 8 + payload_size)]
    ELSE [none |-> TRUE, msg |-> <<>>]

\* lines 217-234: decode and parse the payload.  decode('utf-8') is inside
\* the try block, whose except clause catches json.JSONDecodeError only.
DecodeJson(msg_type, payload_msg) ==
    IF ~Utf8Ok(payload_msg) THEN Parsed("raise", NoValue)
    ELSE LET j == json_loads(payload_msg) IN
         IF ~j.ok THEN ReturnsNone
         ELSE IF j.val.t # "dict" THEN Parsed("error", j.val)
         ELSE IF msg_type = ERROR_RESPONSE THEN Parsed("error", j.val)
         ELSE IF (IF j.val.has_code THEN j.val.code ELSE 0) # 1000
                THEN Parsed("error", j.val)
         ELSE Parsed("ok", j.val)

\* lines 206-236: decompression, then the serialization nibble.
Decode(header, msg_type, payload_msg) ==
    LET compression == Lo(header[3])
        z == IF compression = GZIP THEN gzip_decompress(payload_msg)
                                   ELSE [ok |-> TRUE, out |-> payload_msg]
        serialization == Hi(header[3])
    IN IF ~z.ok THEN ReturnsNone
       ELSE IF serialization = JSON THEN DecodeJson(msg_type, z.out)
       ELSE ReturnsNone

\* _parse_server_response, lines 170-236.  header[k] of the source is
\* header[k + 1] here.
_parse_server_response(d) ==
    IF Len(d) < 4 THEN ReturnsNone
    ELSE LET header == PySlice(d, 0, 4)
             msg_type == Hi(header[2])
             header_size == Lo(header[1])
             extension_header_len == (header_size - 1) * 4
             payload_start == 4 + extension_header_len
         IN IF Len(d) < payload_start THEN ReturnsNone
            ELSE LET payload == PySlice(d, payload_start, Len(d))
                     pm == PayloadMsg(msg_type, payload)
                 IN IF pm.none THEN ReturnsNone
                    ELSE Decode(header, msg_type, pm.msg)

\* No frame is being decoded.
CodecIdle ==
    /\ frame = [hs |-> 1, type |-> FULL_SERVER_RESPONSE, ser |-> JSON, comp |-> 0,
                gz |-> TRUE, doc |-> <<>>]
    /\ inbound = <<>>
    /\ parsed = NotParsed
    /\ handled = FALSE

\* No encoder is being called.
NotEncoded == <<>>
EncoderIdle ==
    /\ call = [fn |-> "none"]
    /\ encoded = NotEncoded

\* _load_audio_file is not being called on its own.
NotLoaded == [raised |-> "idle", out |-> <<>>, runs |-> <<>>]
LoadIdle ==
    /\ ffmpeg = [exists |-> TRUE, hw |-> RunResult(TRUE, <<>>), sw |-> RunResult(TRUE, <<>>)]
    /\ loaded = NotLoaded

\* ------------------------------------------------ src/utils.py, src/api.py
\* Texts of these two files are sequences of character codes.
\* "BV"
BV == <<66, 86>>

\* download_video returning the identifier without looking for a video
\* file in the output directory.
download_video_noFileCheck(bv_number, use_proxy, env_proxy, run1, run2, files) ==
    LET bv == IF PySlice(bv_number, 0, 2) = BV THEN bv_number ELSE BV \o bv_number
        proxy == IF use_proxy # None THEN use_proxy ELSE env_proxy
        first == IF proxy # "" THEN "proxy" ELSE "plain"
    IN IF run1 = "raise" THEN [ret |-> <<>>, raised |-> "none", runs |-> <<first>>]
       ELSE IF run1 = "fail"
         THEN IF proxy # ""
                THEN IF run2 = "ok"
                       THEN [ret |-> bv, raised |-> "none", runs |-> <<first, "plain">>]
                       ELSE [ret |-> <<>>, raised |-> "none", runs |-> <<first, "plain">>]
                ELSE [ret |-> <<>>, raised |-> "none", runs |-> <<first>>]
       ELSE [ret |-> bv, raised |-> "none", runs |-> <<first>>]

\* download_video (src/utils.py, lines 24-100).  use_proxy: the argument
\* (None, "" or an address); env_proxy: HTTP_PROXY (line 14); run1, run2:
\* what subprocess.run of the you-get command does, "ok" (returncode 0),
\* "fail" (another returncode) or "raise"; files: the extensions of the
\* files in the output directory after the runs.  runs: the commands run,
\* "proxy" (with -x) or "plain".  The folders can be created (line 39).
download_video(bv_number, use_proxy, env_proxy, run1, run2, files) ==
    LET bv == IF PySlice(bv_number, 0, 2) = BV THEN bv_number ELSE BV \o bv_number
        proxy == IF use_proxy # None THEN use_proxy ELSE env_proxy
        first == IF proxy # "" THEN "proxy" ELSE "plain"
        mp4 == files \cap {"mp4"}
        flv == IF mp4 = {} THEN files \cap {"flv"} ELSE mp4
        video_files == IF flv = {} THEN files \cap {"mkv"} ELSE flv
        Checked(runs) == IF video_files # {}
                           THEN [ret |-> bv, raised |-> "none", runs |-> runs]
                           ELSE [ret |-> <<>>, raised |-> "none", runs |-> runs]
    IN IF run1 = "raise" THEN [ret |-> <<>>, raised |-> "none", runs |-> <<first>>]
       ELSE IF run1 = "fail"
         THEN IF proxy # ""
                THEN IF run2 = "ok"
                       THEN Checked(<<first, "plain">>)
                       ELSE [ret |-> <<>>, raised |-> "none", runs |-> <<first, "plain">>]
                ELSE [ret |-> <<>>, raised |-> "none", runs |-> <<first>>]
       ELSE Checked(<<first>>)

\* download_video and convert_video are not being called.
NotHandling == [pc |-> "idle"]
NotDownloaded == [ret |-> <<>>, raised |-> "idle", runs |-> <<>>]
UtilIdle ==
    /\ download = [bv_number |-> <<>>, use_proxy |-> None, env_proxy |-> "",
                   run1 |-> "ok", run2 |-> "ok", files |-> {}]
    /\ downloaded = NotDownloaded
    /\ request = <<>>
    /\ api = NotHandling

\* The chunking loop is not running.
ChunkIdle ==
    /\ buf = <<>>
    /\ off = 0
    /\ chunks = <<>>
    /\ cdone = TRUE

\* ------------------------------------------------------------------- Init
\* The engine after __init__ (lines 72-96) and the driver at the entry of
\* recognize_audio_file.
ConstructedCall ==
    /\ pc = "http_exists"
    /\ via = "none"
    /\ outcome = "running"
    /\ result = None
    /\ exc = "none"
    /\ errFrom = "none"
    /\ posts = 0
    /\ batch = "none"
    /\ http_hdr = "none"
    /\ http_body = [json |-> FALSE, text |-> None]
    /\ ws = 0
    /\ ws_thread = 0
    /\ stop_event = FALSE
    /\ sequence_number = 0
    /\ lst = [a \in Attempts |-> "unborn"]
    /\ sock = "none"
    /\ wire = <<>>
    /\ msgs = 0
    /\ attempt = 0
    /\ wsCalls = 0
    /\ audio_data = <<>>
    /\ i = 0
    /\ wait_time = 0
    /\ retval = None
    /\ wsErr = "none"
    /\ nFinals = 0
    /\ firstFinal = None
    /\ lateFinal = FALSE
    /\ latePartial = FALSE
    /\ sendFail = "none"

\* The signals and result fields of the engine after __init__ (lines 84-89).
FreshResults ==
    /\ connected_event = FALSE
    /\ ready_event = FALSE
    /\ current_result = ""
    /\ final_result = None

Constructed == ConstructedCall /\ FreshResults

\* The file at audio_path is empty or not.
FileSizes == {0, 1}
\* ffmpeg exits with an error on an input of zero bytes: only a file that is
\* not empty can be decoded.
Decodable == file_size > 0

\* A call of recognize_audio_file on a path that exists or does not.
Init ==
    /\ path_exists \in BOOLEAN
    /\ file_size \in (IF path_exists THEN FileSizes ELSE {0})
    /\ Constructed
    /\ ChunkIdle
    /\ CodecIdle
    /\ EncoderIdle
    /\ LoadIdle
    /\ UtilIdle

\* ------------------------------------------------- recognize_audio_file
\* except Exception (line 753): the exception of recognize_audio_file_http
\* is dropped and recognize_audio_file_ws is called.
TopExcept ==
    /\ via' = "top"
    /\ pc' = "ws_exists"
    /\ UNCHANGED <<outcome, result>>

\* An exception leaves recognize_audio_file: it reaches the caller.
RaiseToCaller ==
    /\ outcome' = "raised"
    /\ pc' = "done"
    /\ UNCHANGED <<via, result>>

\* A text leaves recognize_audio_file (through "return" at 611, 752 or 755).
ReturnToCaller(text) ==
    /\ outcome' = "returned"
    /\ result' = text
    /\ pc' = "done"
    /\ UNCHANGED via

\* -------------------------------------------- recognize_audio_file_http
\* recognize_audio_file_http without its fallback: the exception is raised.
HttpExcept_reraise == RaiseToCaller

\* except Exception (lines 606-611): fall back to recognize_audio_file_ws.
HttpExcept ==
    /\ via' = "http"
    /\ pc' = "ws_exists"
    /\ UNCHANGED <<outcome, result>>

\* The responses requests.post may deliver: a status header (the success
\* code, another code, or no header) and a body (not JSON / not the expected
\* shape, or a JSON object whose result.text is a text or is missing).
Headers == {SUCCESS_STATUS, "45000001", "absent"}
Bodies == {[json |-> FALSE, text |-> None]}
              \cup {[json |-> TRUE, text |-> t] : t \in Texts \cup {None}}

\* result.get("result", {}).get("text", "")
BodyText(body) == IF body.text = None THEN "" ELSE body.text

\* lines 541-542: the existence check, outside the try block.
HttpExists ==
    /\ pc = "http_exists"
    /\ IF path_exists
         THEN /\ pc' = "http_read"
              /\ UNCHANGED <<via, outcome, result, exc, errFrom, batch>>
         ELSE /\ exc' = "FileNotFoundError"
              /\ errFrom' = "batch"
              /\ batch' = "failed"
              /\ TopExcept
    /\ UNCHANGED <<path_exists, posts, http_hdr, http_body>>
    /\ UNCHANGED <<sessionVars, listenerVars, localVars, histVars, chunkVars, codecVars, fileVars, loadVars, utilVars, failVars>>

\* lines 547-551: read the file; open/read may raise.
HttpRead(ok) ==
    /\ pc = "http_read"
    /\ IF ok
         THEN /\ pc' = "http_post"
              /\ UNCHANGED <<via, outcome, result, exc, errFrom, batch>>
         ELSE /\ exc' = "OSError"
              /\ errFrom' = "batch"
              /\ batch' = "failed"
              /\ HttpExcept
    /\ UNCHANGED <<path_exists, posts, http_hdr, http_body>>
    /\ UNCHANGED <<sessionVars, listenerVars, localVars, histVars, chunkVars, codecVars, fileVars, loadVars, utilVars, failVars>>

\* The batch request with no fallback: its failure reaches the caller.
HttpPost_unhandled(hdr, body) ==
    /\ pc = "http_post"
    /\ posts' = posts + 1
    /\ http_hdr' = hdr
    /\ http_body' = body
    /\ IF hdr = SUCCESS_STATUS /\ body.json
         THEN /\ batch' = "ok"
              /\ ReturnToCaller(BodyText(body))
              /\ UNCHANGED <<exc, errFrom>>
         ELSE /\ exc' = "ApiError"
              /\ errFrom' = "batch"
              /\ batch' = "failed"
              /\ RaiseToCaller
    /\ UNCHANGED path_exists
    /\ UNCHANGED <<sessionVars, listenerVars, localVars, histVars, chunkVars, codecVars, fileVars, loadVars, utilVars, failVars>>

\* The batch request succeeding on a body that carries a text, whatever
\* the status header.
HttpPost_bodyDecides(hdr, body) ==
    /\ pc = "http_post"
    /\ posts' = posts + 1
    /\ http_hdr' = hdr
    /\ http_body' = body
    /\ IF body.json /\ body.text # None
         THEN /\ batch' = "ok"
              /\ ReturnToCaller(BodyText(body))
              /\ UNCHANGED <<exc, errFrom>>
         ELSE /\ exc' = "ApiError"
              /\ errFrom' = "batch"
              /\ batch' = "failed"
              /\ HttpExcept
    /\ UNCHANGED path_exists
    /\ UNCHANGED <<sessionVars, listenerVars, localVars, histVars, chunkVars, codecVars, fileVars, loadVars, utilVars, failVars>>

\* The batch request treating a success without a text as a failure.
HttpPost_emptyIsFailure(hdr, body) ==
    /\ pc = "http_post"
    /\ posts' = posts + 1
    /\ http_hdr' = hdr
    /\ http_body' = body
    /\ IF hdr = SUCCESS_STATUS /\ body.json /\ BodyText(body) # ""
         THEN /\ batch' = "ok"
              /\ ReturnToCaller(BodyText(body))
              /\ UNCHANGED <<exc, errFrom>>
         ELSE /\ exc' = "ApiError"
              /\ errFrom' = "batch"
              /\ batch' = "failed"
              /\ HttpExcept
    /\ UNCHANGED path_exists
    /\ UNCHANGED <<sessionVars, listenerVars, localVars, histVars, chunkVars, codecVars, fileVars, loadVars, utilVars, failVars>>

\* lines 580-604 with a response: the status header decides.
HttpPost(hdr, body) ==
    /\ pc = "http_post"
    /\ posts' = posts + 1
    /\ http_hdr' = hdr
    /\ http_body' = body
    /\ IF hdr = SUCCESS_STATUS
         THEN IF body.json
                THEN /\ batch' = "ok"
                     /\ ReturnToCaller(BodyText(body))
                     /\ UNCHANGED <<exc, errFrom>>
                ELSE /\ exc' = "JSONDecodeError"
                     /\ errFrom' = "batch"
                     /\ batch' = "failed"
                     /\ HttpExcept
         ELSE /\ exc' = "ApiError"
              /\ errFrom' = "batch"
              /\ batch' = "failed"
              /\ HttpExcept
    /\ UNCHANGED path_exists
    /\ UNCHANGED <<sessionVars, listenerVars, localVars, histVars, chunkVars, codecVars, fileVars, loadVars, utilVars, failVars>>

\* A transport error of the request sending the request again.
HttpPostFails_retry ==
    /\ pc = "http_post"
    /\ posts' = posts + 1
    /\ exc' = "RequestException"
    /\ errFrom' = "batch"
    /\ UNCHANGED <<pc, via, outcome, result, batch>>
    /\ UNCHANGED <<path_exists, http_hdr, http_body>>
    /\ UNCHANGED <<sessionVars, listenerVars, localVars, histVars, chunkVars, codecVars, fileVars, loadVars, utilVars, failVars>>

\* line 580 raising (connection error, timeout after 120 s).
HttpPostFails ==
    /\ pc = "http_post"
    /\ posts' = posts + 1
    /\ exc' = "RequestException"
    /\ errFrom' = "batch"
    /\ batch' = "failed"
    /\ HttpExcept
    /\ UNCHANGED <<path_exists, http_hdr, http_body>>
    /\ UNCHANGED <<sessionVars, listenerVars, localVars, histVars, chunkVars, codecVars, fileVars, loadVars, utilVars, failVars>>

\* ---------------------------------------------- recognize_audio_file_ws
\* Driver positions between the reset of an attempt and its
\* "return self._final_result".
Live == {"ws_connect_wait", "ws_ready_wait", "ws_load", "ws_send", "ws_last",
         "ws_poll", "ws_post_check", "ws_post_partial", "ws_subst", "ws_return"}
\* Positions up to the end of the poll loop.
InBudget == {"ws_connect_wait", "ws_ready_wait", "ws_load", "ws_send", "ws_last",
             "ws_poll"}

\* An exception leaves recognize_audio_file_ws: called from the except
\* clause of recognize_audio_file_http (line 611) it passes through that
\* function and is caught at line 753; called from line 755 it reaches the
\* caller.
WsPropagate == IF via = "http" THEN TopExcept ELSE RaiseToCaller

\* The finally clause closing the socket but keeping the handle in self._ws.
Finally_keepsHandle ==
    /\ stop_event' = TRUE
    /\ IF ws # 0
         THEN /\ sock' = IF sock = "connected" THEN "closed" ELSE sock
              /\ lst' = [lst EXCEPT ![ws] = IF @ = "running" THEN "draining" ELSE @]
         ELSE UNCHANGED <<sock, lst>>
    /\ UNCHANGED ws
    /\ UNCHANGED <<ws_thread, connected_event, ready_event, current_result,
                   sequence_number>>

\* The finally clause, lines 727-739.  close() stops the app of this
\* attempt: its socket is closed if it was connected, and a running listener
\* finishes the callback it is in.  join(timeout=1.0) waits no longer than
\* that, so the clause always completes.
Finally ==
    /\ stop_event' = TRUE
    /\ IF ws # 0
         THEN /\ sock' = IF sock = "connected" THEN "closed" ELSE sock
              /\ lst' = [lst EXCEPT ![ws] = IF @ = "running" THEN "draining" ELSE @]
         ELSE UNCHANGED <<sock, lst>>
    /\ ws' = 0
    /\ UNCHANGED <<ws_thread, connected_event, ready_event, current_result,
                   sequence_number>>

\* An exception raised inside the try block (lines 627-721): the except
\* clause logs and re-raises, the finally clause runs, the exception leaves
\* the function.
WsRaise(kind) ==
    /\ exc' = kind
    /\ errFrom' = "stream"
    /\ wsErr' = kind
    /\ Finally
    /\ WsPropagate

\* No exception: what WsRaise changes stays, but for the driver's position.
NoRaise ==
    UNCHANGED <<exc, errFrom, wsErr, via, outcome, result, ws, ws_thread, stop_event,
                connected_event, ready_event, current_result, sequence_number,
                sock, lst>>

\* recognize_audio_file_ws without its existence check.
WsExists_nocheck ==
    /\ pc = "ws_exists"
    /\ wsCalls' = wsCalls + 1
    /\ http_hdr' = "none"
    /\ http_body' = [json |-> FALSE, text |-> None]
    /\ pc' = "ws_start"
    /\ exc' = "none"
    /\ errFrom' = "none"
    /\ UNCHANGED <<via, outcome, result>>
    /\ UNCHANGED <<path_exists, posts, batch>>
    /\ UNCHANGED <<attempt, audio_data, i, wait_time, retval, wsErr>>
    /\ UNCHANGED <<sessionVars, listenerVars, histVars, chunkVars, codecVars, fileVars, loadVars, utilVars, failVars>>

\* lines 624-625: the existence check, outside the try block.  The caught
\* batch exception and the response of the batch request are dead here.
WsExists ==
    /\ pc = "ws_exists"
    /\ wsCalls' = wsCalls + 1
    /\ http_hdr' = "none"
    /\ http_body' = [json |-> FALSE, text |-> None]
    /\ IF path_exists
         THEN /\ pc' = "ws_start"
              /\ exc' = "none"
              /\ errFrom' = "none"
              /\ UNCHANGED <<via, outcome, result>>
         ELSE /\ exc' = "FileNotFoundError"
              /\ errFrom' = "stream"
              /\ WsPropagate
    /\ UNCHANGED <<path_exists, posts, batch>>
    /\ UNCHANGED <<attempt, audio_data, i, wait_time, retval, wsErr>>
    /\ UNCHANGED <<sessionVars, listenerVars, histVars, chunkVars, codecVars, fileVars, loadVars, utilVars, failVars>>

\* lines 629-654: reset the session fields, create the WebSocketApp (its
\* socket is not connected yet) and start its thread.
WsStart ==
    /\ pc = "ws_start"
    /\ attempt' = attempt + 1
    /\ stop_event' = FALSE
    /\ connected_event' = FALSE
    /\ ready_event' = FALSE
    /\ current_result' = ""
    /\ final_result' = None
    /\ sequence_number' = 0
    /\ ws' = attempt + 1
    /\ ws_thread' = attempt + 1
    /\ lst' = [lst EXCEPT ![attempt + 1] = "connecting"]
    /\ sock' = "none"
    /\ wire' = <<>>
    /\ msgs' = 0
    /\ audio_data' = <<>>
    /\ i' = 0
    /\ wait_time' = 0
    /\ retval' = None
    /\ wsErr' = "none"
    /\ nFinals' = 0
    /\ firstFinal' = None
    /\ lateFinal' = FALSE
    /\ latePartial' = FALSE
    /\ sendFail' = "none"
    /\ pc' = "ws_connect_wait"
    /\ UNCHANGED <<path_exists, via, outcome, result, exc, errFrom>>
    /\ UNCHANGED wsCalls
    /\ UNCHANGED <<batchVars, chunkVars, codecVars, fileVars, loadVars, utilVars>>

\* The connect wait with its result ignored.
WsConnectWait_proceeds ==
    /\ pc = "ws_connect_wait"
    /\ pc' = "ws_ready_wait"
    /\ NoRaise
    /\ UNCHANGED <<path_exists, final_result, wire, msgs>>
    /\ UNCHANGED <<attempt, wsCalls, audio_data, i, wait_time, retval>>
    /\ UNCHANGED <<batchVars, histVars, chunkVars, codecVars, fileVars, loadVars, utilVars, failVars>>

\* lines 658-660: self._connected_event.wait(timeout=5.0)
WsConnectWait ==
    /\ pc = "ws_connect_wait"
    /\ IF connected_event
         THEN /\ pc' = "ws_ready_wait"
              /\ NoRaise
         ELSE WsRaise("RuntimeError")
    /\ UNCHANGED <<path_exists, final_result, wire, msgs>>
    /\ UNCHANGED <<attempt, wsCalls, audio_data, i, wait_time, retval>>
    /\ UNCHANGED <<batchVars, histVars, chunkVars, codecVars, fileVars, loadVars, utilVars, failVars>>

\* The ready wait with a timeout that raises, like the connect wait.
WsReadyWait_fatal ==
    /\ pc = "ws_ready_wait"
    /\ IF ready_event
         THEN /\ pc' = "ws_load"
              /\ NoRaise
         ELSE WsRaise("RuntimeError")
    /\ UNCHANGED <<path_exists, final_result, wire, msgs>>
    /\ UNCHANGED <<attempt, wsCalls, audio_data, i, wait_time, retval>>
    /\ UNCHANGED <<batchVars, histVars, chunkVars, codecVars, fileVars, loadVars, utilVars, failVars>>

\* lines 664-667: self._ready_event.wait(timeout=10.0); a timeout only logs.
WsReadyWait ==
    /\ pc = "ws_ready_wait"
    /\ pc' = "ws_load"
    /\ UNCHANGED <<exc, errFrom, wsErr>>
    /\ UNCHANGED <<path_exists, via, outcome, result>>
    /\ UNCHANGED <<attempt, wsCalls, audio_data, i, wait_time, retval>>
    /\ UNCHANGED <<batchVars, sessionVars, listenerVars, histVars, chunkVars, codecVars, fileVars, loadVars, utilVars, failVars>>

\* _load_audio_file (lines 345-396): the existence check, the
\* hardware-accelerated ffmpeg run, then the plain one if the first failed.
\* hw, sw: what run(cmd, check=True) does for the two commands (a
\* RunResult); runs: the commands that were run, in order.

\* The decoding without the second command.
_load_audio_file_noFallback(exists, hw, sw) ==
    IF ~exists THEN [raised |-> "FileNotFoundError", out |-> <<>>, runs |-> <<>>]
    ELSE IF hw.ok THEN [raised |-> "none", out |-> hw.out, runs |-> <<"hw">>]
    ELSE [raised |-> "CalledProcessError", out |-> <<>>, runs |-> <<"hw">>]

_load_audio_file(exists, hw, sw) ==
    IF ~exists THEN [raised |-> "FileNotFoundError", out |-> <<>>, runs |-> <<>>]
    ELSE IF hw.ok THEN [raised |-> "none", out |-> hw.out, runs |-> <<"hw">>]
    ELSE IF sw.ok THEN [raised |-> "none", out |-> sw.out, runs |-> <<"hw", "sw">>]
    ELSE [raised |-> "CalledProcessError", out |-> <<>>, runs |-> <<"hw", "sw">>]

\* line 670: audio_data = self._load_audio_file(audio_path)
WsLoad(hw_ok, sw_ok, n) ==
    /\ pc = "ws_load"
    /\ LET r == _load_audio_file(path_exists, RunResult(hw_ok, Pcm(n)),
                                  RunResult(sw_ok, Pcm(n))) IN
       IF r.raised = "none"
         THEN /\ audio_data' = r.out
              /\ pc' = "ws_send"
              /\ NoRaise
         ELSE /\ WsRaise(r.raised)
              /\ UNCHANGED audio_data
    /\ i' = 0
    /\ UNCHANGED <<path_exists, final_result, wire, msgs>>
    /\ UNCHANGED <<attempt, wsCalls, wait_time, retval>>
    /\ UNCHANGED <<batchVars, histVars, chunkVars, codecVars, fileVars, loadVars, utilVars, failVars>>

\* The first failure of the attempt is kept.
FirstFail(kind) == IF sendFail = "none" THEN kind ELSE sendFail

\* Positions of the driver from the start of the listener to the write of
\* the empty frame.
Sending == {"ws_connect_wait", "ws_ready_wait", "ws_load", "ws_send", "ws_last"}

\* The send loop marking its end with an empty audio frame of its own.
WsSendChunk_emptyAtEnd(ok) ==
    /\ pc = "ws_send"
    /\ IF i < Len(audio_data)
         THEN LET chunk == Slice(audio_data, i, chunk_size) IN
              IF chunk # <<>> /\ SockUsable
                THEN IF ok
                       THEN /\ wire' = Append(wire, _build_audio_request(chunk,
                                           i + chunk_size >= Len(audio_data)))
                            /\ i' = i + chunk_size
                            /\ UNCHANGED pc
                            /\ NoRaise
                       ELSE /\ WsRaise("SendError")
                            /\ UNCHANGED <<wire, i>>
                ELSE /\ i' = i + chunk_size
                     /\ UNCHANGED <<pc, wire>>
                     /\ NoRaise
         ELSE /\ pc' = "ws_last"
              /\ wire' = IF SockUsable THEN Append(wire, _build_audio_request(<<>>, TRUE))
                                        ELSE wire
              /\ UNCHANGED i
              /\ NoRaise
    /\ sendFail' = IF i < Len(audio_data) /\ SockUsable /\ ~ok
                      THEN FirstFail("chunk") ELSE sendFail
    /\ UNCHANGED <<path_exists, final_result, msgs>>
    /\ UNCHANGED <<attempt, wsCalls, audio_data, wait_time, retval>>
    /\ UNCHANGED <<batchVars, histVars, chunkVars, codecVars, fileVars, loadVars, utilVars>>

\* lines 682-694: one iteration of the send loop, or its end.
WsSendChunk(ok) ==
    /\ pc = "ws_send"
    /\ IF i < Len(audio_data)
         THEN LET chunk == Slice(audio_data, i, chunk_size) IN
              IF chunk # <<>> /\ SockUsable
                THEN IF ok
                       THEN /\ wire' = Append(wire, _build_audio_request(chunk,
                                           i + chunk_size >= Len(audio_data)))
                            /\ i' = i + chunk_size
                            /\ UNCHANGED pc
                            /\ NoRaise
                       ELSE /\ WsRaise("SendError")
                            /\ UNCHANGED <<wire, i>>
                ELSE /\ i' = i + chunk_size
                     /\ UNCHANGED <<pc, wire>>
                     /\ NoRaise
         ELSE /\ pc' = "ws_last"
              /\ UNCHANGED <<wire, i>>
              /\ NoRaise
    /\ sendFail' = IF i < Len(audio_data) /\ SockUsable /\ ~ok
                      THEN FirstFail("chunk") ELSE sendFail
    /\ UNCHANGED <<path_exists, final_result, msgs>>
    /\ UNCHANGED <<attempt, wsCalls, audio_data, wait_time, retval>>
    /\ UNCHANGED <<batchVars, histVars, chunkVars, codecVars, fileVars, loadVars, utilVars>>

\* line 697, _send_last_packet (lines 322-329): the empty audio frame; a
\* send error is logged and dropped.  Then lines 701-702.
WsSendLast(ok) ==
    /\ pc = "ws_last"
    /\ IF SockUsable /\ ok
         THEN wire' = Append(wire, _build_audio_request(<<>>, TRUE))
         ELSE UNCHANGED wire
    /\ sendFail' = IF SockUsable /\ ~ok THEN FirstFail("eos") ELSE sendFail
    /\ wait_time' = 0
    /\ pc' = "ws_poll"
    /\ UNCHANGED <<path_exists, via, outcome, result, exc, errFrom>>
    /\ UNCHANGED <<attempt, wsCalls, audio_data, i, retval, wsErr>>
    /\ UNCHANGED <<lst, sock, msgs>>
    /\ UNCHANGED <<batchVars, sessionVars, histVars, chunkVars, codecVars, fileVars, loadVars, utilVars>>

\* lines 704-709: one test of the loop condition and one poll.
\* The result wait without its budget: the loop is left only on a final
\* result.
WsPoll_noBudget ==
    /\ pc = "ws_poll"
    /\ IF final_result # None
         THEN /\ pc' = "ws_post_check"
              /\ UNCHANGED wait_time
         ELSE UNCHANGED <<pc, wait_time>>
    /\ UNCHANGED <<path_exists, via, outcome, result, exc, errFrom>>
    /\ UNCHANGED <<attempt, wsCalls, audio_data, i, retval, wsErr>>
    /\ UNCHANGED <<batchVars, sessionVars, listenerVars, histVars, chunkVars, codecVars, fileVars, loadVars, utilVars, failVars>>

\* The result wait with one poll more than its budget.
WsPoll_extraPoll ==
    /\ pc = "ws_poll"
    /\ IF wait_time <= max_wait
         THEN IF final_result # None
                THEN /\ pc' = "ws_post_check"
                     /\ UNCHANGED wait_time
                ELSE /\ wait_time' = wait_time + 1
                     /\ UNCHANGED pc
         ELSE /\ pc' = "ws_post_check"
              /\ UNCHANGED wait_time
    /\ UNCHANGED <<path_exists, via, outcome, result, exc, errFrom>>
    /\ UNCHANGED <<attempt, wsCalls, audio_data, i, retval, wsErr>>
    /\ UNCHANGED <<batchVars, sessionVars, listenerVars, histVars, chunkVars, codecVars, fileVars, loadVars, utilVars, failVars>>

WsPoll ==
    /\ pc = "ws_poll"
    /\ IF wait_time < max_wait
         THEN IF final_result # None
                THEN /\ pc' = "ws_post_check"
                     /\ UNCHANGED wait_time
                ELSE /\ wait_time' = wait_time + 1
                     /\ UNCHANGED pc
         ELSE /\ pc' = "ws_post_check"
              /\ UNCHANGED wait_time
    /\ UNCHANGED <<path_exists, via, outcome, result, exc, errFrom>>
    /\ UNCHANGED <<attempt, wsCalls, audio_data, i, retval, wsErr>>
    /\ UNCHANGED <<batchVars, sessionVars, listenerVars, histVars, chunkVars, codecVars, fileVars, loadVars, utilVars, failVars>>

\* The post-loop check always taking the substitution branch.
WsPostCheck_partialFirst ==
    /\ pc = "ws_post_check"
    /\ pc' = "ws_post_partial"
    /\ UNCHANGED <<path_exists, via, outcome, result, exc, errFrom>>
    /\ UNCHANGED localVars
    /\ UNCHANGED <<batchVars, sessionVars, listenerVars, histVars, chunkVars, codecVars, fileVars, loadVars, utilVars, failVars>>

\* line 712: if self._final_result is None
WsPostCheck ==
    /\ pc = "ws_post_check"
    /\ pc' = IF final_result = None THEN "ws_post_partial" ELSE "ws_return"
    /\ UNCHANGED <<path_exists, via, outcome, result, exc, errFrom>>
    /\ UNCHANGED localVars
    /\ UNCHANGED <<batchVars, sessionVars, listenerVars, histVars, chunkVars, codecVars, fileVars, loadVars, utilVars, failVars>>

\* The substitution step raising when there is no partial result either.
WsPostPartial_fatal ==
    /\ pc = "ws_post_partial"
    /\ IF current_result # ""
         THEN /\ pc' = "ws_subst"
              /\ NoRaise
         ELSE WsRaise("TimeoutError")
    /\ UNCHANGED <<path_exists, final_result, wire, msgs>>
    /\ UNCHANGED <<attempt, wsCalls, audio_data, i, wait_time, retval>>
    /\ UNCHANGED <<batchVars, histVars, chunkVars, codecVars, fileVars, loadVars, utilVars, failVars>>

\* line 713: if self._current_result; the else branch (line 718) stores "".
WsPostPartial ==
    /\ pc = "ws_post_partial"
    /\ IF current_result # ""
         THEN /\ pc' = "ws_subst"
              /\ UNCHANGED final_result
         ELSE /\ final_result' = ""
              /\ pc' = "ws_return"
    /\ UNCHANGED <<path_exists, via, outcome, result, exc, errFrom>>
    /\ UNCHANGED localVars
    /\ UNCHANGED <<ws, ws_thread, stop_event, connected_event, ready_event,
                   current_result, sequence_number>>
    /\ UNCHANGED <<batchVars, listenerVars, histVars, chunkVars, codecVars, fileVars, loadVars, utilVars, failVars>>

\* The substitution storing the empty string instead of the partial result.
WsSubst_empty ==
    /\ pc = "ws_subst"
    /\ final_result' = ""
    /\ pc' = "ws_return"
    /\ UNCHANGED <<path_exists, via, outcome, result, exc, errFrom>>
    /\ UNCHANGED localVars
    /\ UNCHANGED <<ws, ws_thread, stop_event, connected_event, ready_event,
                   current_result, sequence_number>>
    /\ UNCHANGED <<batchVars, listenerVars, histVars, chunkVars, codecVars, fileVars, loadVars, utilVars, failVars>>

\* line 715: self._final_result = self._current_result
WsSubst ==
    /\ pc = "ws_subst"
    /\ final_result' = current_result
    /\ pc' = "ws_return"
    /\ UNCHANGED <<path_exists, via, outcome, result, exc, errFrom>>
    /\ UNCHANGED localVars
    /\ UNCHANGED <<ws, ws_thread, stop_event, connected_event, ready_event,
                   current_result, sequence_number>>
    /\ UNCHANGED <<batchVars, listenerVars, histVars, chunkVars, codecVars, fileVars, loadVars, utilVars, failVars>>

\* lines 720-721: return self._final_result; the finally clause runs and
\* the text leaves the function.
WsReturn ==
    /\ pc = "ws_return"
    /\ retval' = final_result
    /\ Finally
    /\ ReturnToCaller(final_result)
    /\ UNCHANGED <<path_exists, exc, errFrom, final_result, wire, msgs>>
    /\ UNCHANGED <<attempt, wsCalls, audio_data, i, wait_time, wsErr>>
    /\ UNCHANGED <<batchVars, histVars, chunkVars, codecVars, fileVars, loadVars, utilVars, failVars>>

\* ------------------------------------------------------ listener threads
\* What _on_ws_message is handed: a text message (str), or a binary message
\* that _parse_server_response turns into None, into an error value, or into
\* a success object (code 1000) without or with a result item.
Messages ==
    {[kind |-> k, text |-> "", final |-> FALSE] : k \in {"str", "none", "error", "ack"}}
        \cup {[kind |-> "result", text |-> t, final |-> FALSE] : t \in PartialTexts}
        \cup {[kind |-> "result", text |-> t, final |-> TRUE] : t \in FinalTexts}

\* The handler without the test of the "error" member (lines 263-266): the
\* data of an error value is handled like a response.
MessageOf_noErrorTest(p) ==
    IF p.kind \notin {"ok", "error"} THEN [kind |-> p.kind, text |-> "", final |-> FALSE]
    ELSE IF p.val.result.shape \in {"list", "dict"}
      THEN [kind |-> "result", text |-> p.val.result.text,
            final |-> (p.val.result.definite \/ p.val.result.is_final)]
    ELSE [kind |-> "ack", text |-> "", final |-> FALSE]

\* lines 256-292: what _on_ws_message makes of the outcome p of
\* _parse_server_response.  It returns on None and on an error value (and
\* the callback ends where the parser raised); a dict carries a result when
\* its "result" member is a dict or a list whose first item is one, and the
\* result is final when "definite" or "is_final" is set.
MessageOf(p) ==
    IF p.kind # "ok" THEN [kind |-> p.kind, text |-> "", final |-> FALSE]
    ELSE IF p.val.result.shape \in {"list", "dict"}
      THEN [kind |-> "result", text |-> p.val.result.text,
            final |-> (p.val.result.definite \/ p.val.result.is_final)]
    ELSE [kind |-> "ack", text |-> "", final |-> FALSE]

\* lines 268-270: a response that reaches the code test has code 1000 (the
\* parser returns every other dict as an error value) and sets the ready
\* event.
ReadyAfter(m, ready) == IF m.kind \in {"ack", "result"} THEN TRUE ELSE ready

\* The partial result with the text of the frame appended to it.
CurrentAfter_append(m, current) ==
    IF m.kind = "result" /\ ~m.final THEN current \o m.text ELSE current

\* lines 296-298: a result that is not final is assigned to _current_result.
CurrentAfter(m, current) ==
    IF m.kind = "result" /\ ~m.final THEN m.text ELSE current

\* lines 292-294: a final result is assigned to _final_result.
FinalAfter(m, final) ==
    IF m.kind = "result" /\ m.final THEN m.text ELSE final

\* run_forever of attempt a connected and calls on_open: _on_ws_open sets
\* the connected event of the engine (line 241).  The app of an attempt that
\* was torn down (a # ws) was closed and has no usable socket: the send of
\* lines 244-245 raises and is logged, nothing else happens in the callback
\* and the thread ends.
WsConnected(a) ==
    /\ lst[a] = "connecting"
    /\ lst' = [lst EXCEPT ![a] = IF a = ws THEN "opened" ELSE "exited"]
    /\ sock' = IF a = ws THEN "connected" ELSE sock
    /\ connected_event' = TRUE
    /\ UNCHANGED <<wire, msgs>>
    /\ UNCHANGED <<ws, ws_thread, stop_event, ready_event, current_result,
                   final_result, sequence_number>>
    /\ UNCHANGED <<callVars, batchVars, localVars, histVars, chunkVars, codecVars, fileVars, loadVars, utilVars, failVars>>

\* run_forever could not connect: _on_ws_error logs, the thread ends.
WsConnectFails(a) ==
    /\ lst[a] = "connecting"
    /\ lst' = [lst EXCEPT ![a] = "exited"]
    /\ UNCHANGED <<sock, wire, msgs>>
    /\ UNCHANGED <<callVars, batchVars, sessionVars, localVars, histVars, chunkVars, codecVars, fileVars, loadVars, utilVars, failVars>>

\* _on_ws_open, lines 243-248: send the configuration frame; a send error is
\* logged and dropped.
OnOpenSend(a, ok) ==
    /\ lst[a] = "opened"
    /\ IF ok /\ a = ws /\ sock = "connected"
         THEN wire' = Append(wire, _build_full_client_request)
         ELSE UNCHANGED wire
    /\ lst' = [lst EXCEPT ![a] = IF a = ws /\ sock = "connected" THEN "running"
                                                                  ELSE "exited"]
    /\ sendFail' = IF a = ws /\ ~(ok /\ sock = "connected")
                      THEN FirstFail("config") ELSE sendFail
    /\ UNCHANGED <<sock, msgs>>
    /\ UNCHANGED <<callVars, batchVars, sessionVars, localVars, histVars, chunkVars, codecVars, fileVars, loadVars, utilVars>>

\* _on_ws_message, lines 250-300, run by the listener of attempt a.  A
\* running listener dispatches up to MaxMsgs messages; a listener whose
\* socket was closed finishes the one callback it is in.
OnMessage(a, m) ==
    /\ \/ lst[a] = "running" /\ msgs < MaxMsgs
       \/ lst[a] = "draining"
    /\ msgs' = IF lst[a] = "running" THEN msgs + 1 ELSE msgs
    /\ lst' = [lst EXCEPT ![a] = IF @ = "draining" THEN "exited" ELSE @]
    /\ ready_event' = ReadyAfter(m, ready_event)
    /\ current_result' = CurrentAfter(m, current_result)
    /\ final_result' = FinalAfter(m, final_result)
    /\ IF m.kind = "result"
         THEN IF m.final
                THEN /\ nFinals' = IF pc \in Live /\ nFinals < 2
                                     THEN nFinals + 1 ELSE nFinals
                     /\ firstFinal' = IF pc \in Live /\ nFinals = 0
                                        THEN m.text ELSE firstFinal
                     /\ lateFinal' = (lateFinal \/ pc \in
                            {"ws_post_partial", "ws_subst", "ws_return"})
                     /\ UNCHANGED latePartial
                ELSE /\ latePartial' = (latePartial \/ pc \notin InBudget)
                     /\ UNCHANGED <<nFinals, firstFinal, lateFinal>>
         ELSE UNCHANGED histVars
    /\ UNCHANGED <<sock, wire>>
    /\ UNCHANGED <<ws, ws_thread, stop_event, connected_event, sequence_number>>
    /\ UNCHANGED <<callVars, batchVars, localVars, chunkVars, codecVars, fileVars, loadVars, utilVars, failVars>>

\* The connection of the current app is lost: its socket is no longer
\* connected and its listener ends after the callback it is in.
ConnLost ==
    /\ ws # 0
    /\ sock = "connected"
    /\ sock' = "closed"
    /\ lst' = [lst EXCEPT ![ws] = IF @ = "running" THEN "draining" ELSE @]
    /\ sendFail' = IF pc \in Sending THEN FirstFail("lost") ELSE sendFail
    /\ UNCHANGED <<wire, msgs>>
    /\ UNCHANGED <<callVars, batchVars, sessionVars, localVars, histVars, chunkVars, codecVars, fileVars, loadVars, utilVars>>

\* run_forever returns.
ListenerExit(a) ==
    /\ lst[a] = "draining"
    /\ lst' = [lst EXCEPT ![a] = "exited"]
    /\ UNCHANGED <<sock, wire, msgs>>
    /\ UNCHANGED <<callVars, batchVars, sessionVars, localVars, histVars, chunkVars, codecVars, fileVars, loadVars, utilVars, failVars>>

\* ------------------------------------------------------------------- Next
Driver ==
    \/ HttpExists
    \/ \E ok \in BOOLEAN : HttpRead(ok)
    \/ \E hdr \in Headers, body \in Bodies : HttpPost(hdr, body)
    \/ HttpPostFails
    \/ WsExists
    \/ WsStart
    \/ WsConnectWait
    \/ WsReadyWait
    \/ \E hw_ok \in {b \in BOOLEAN : b => Decodable}, sw_ok \in {b \in BOOLEAN : b => Decodable},
          n \in 0 .. MaxAudio : WsLoad(hw_ok, sw_ok, n)
    \/ \E ok \in BOOLEAN : WsSendChunk(ok)
    \/ \E ok \in BOOLEAN : WsSendLast(ok)
    \/ WsPoll
    \/ WsPostCheck
    \/ WsPostPartial
    \/ WsSubst
    \/ WsReturn

Listener ==
    \/ \E a \in Attempts : WsConnected(a)
    \/ \E a \in Attempts : WsConnectFails(a)
    \/ \E a \in Attempts, ok \in BOOLEAN : OnOpenSend(a, ok)
    \/ \E a \in Attempts, m \in Messages : OnMessage(a, m)
    \/ ConnLost
    \/ \E a \in Attempts : ListenerExit(a)

Next == Driver \/ Listener

Spec == Init /\ [][Next]_vars

\* The foreground thread is never suspended for ever: every call it makes
\* (a wait with a timeout, a sleep, a send, the decoder, the HTTP request)
\* returns, so the driver takes its next step whenever it has one.  Nothing
\* is assumed of the listener threads or of the server.
SpecLive == Init /\ [][Next]_vars /\ WF_vars(Driver)

\* ------------------------------------------- the chunking loop on its own
\* The send loop of lines 677-694 applied to any buffer: its loop variable
\* and the non-empty chunks it produces, in order.
Bytes == {0, 1}
Buffers == UNION {[1 .. n -> Bytes] : n \in 0 .. MaxBuf}

ChunkInit ==
    /\ path_exists = TRUE
    /\ Constructed
    /\ buf \in Buffers
    /\ off = 0
    /\ chunks = <<>>
    /\ cdone = FALSE
    /\ file_size = 1
    /\ CodecIdle
    /\ EncoderIdle
    /\ LoadIdle
    /\ UtilIdle

\* for i in range(0, len(audio_data), chunk_size):
\*     chunk = audio_data[i:i+chunk_size]
\*     if chunk: ...
ChunkStep ==
    /\ ~cdone
    /\ IF off < Len(buf)
         THEN LET chunk == Slice(buf, off, chunk_size) IN
              /\ chunks' = IF chunk # <<>> THEN Append(chunks, chunk) ELSE chunks
              /\ off' = off + chunk_size
              /\ UNCHANGED cdone
         ELSE /\ cdone' = TRUE
              /\ UNCHANGED <<chunks, off>>
    /\ UNCHANGED buf
    /\ UNCHANGED <<callVars, batchVars, sessionVars, listenerVars, localVars, histVars,
                   codecVars, fileVars, loadVars, utilVars, failVars>>

NextChunk == ChunkStep

SpecChunk == ChunkInit /\ [][NextChunk]_vars

\* --------------------------------------------- frame decoding on its own
\* _parse_server_response applied to what a server may send: a frame with
\* header-length nibble 0, 1 or 2, of one of the two server types or of
\* another type, with JSON or no serialization, with or without gzip (and
\* then a body that is or is not a gzip buffer), carrying one of the
\* payloads; the frame whole or cut after any number of bytes.
Docs == {DocOk, DocOtherCode, DocNoCode, DocList, DocTen, DocBadJson, DocNotUtf8, <<>>,
         DocPartial, DocFinal, DocFinalDict, DocEmptyResult, DocErrResult}
\* A message type that is neither FULL_SERVER_RESPONSE nor ERROR_RESPONSE.
OTHER_RESPONSE == 11
\* The error code field of an ERROR_RESPONSE frame.
ErrCode == 45

ServerFrames ==
    {f \in [hs : {0, 1, 2}, type : {FULL_SERVER_RESPONSE, ERROR_RESPONSE, OTHER_RESPONSE},
            ser : {0, JSON}, comp : {0, GZIP}, gz : BOOLEAN, doc : Docs] :
        f.comp = GZIP \/ f.gz}

\* The bytes of a frame: the header (version 1), the extension header the
\* header-length nibble announces, for an ERROR_RESPONSE the code, then the
\* size of the body and the body.
ServerEncode(f) ==
    LET body == IF f.comp = GZIP /\ f.gz THEN gzip_compress(f.doc) ELSE f.doc
    IN <<16 + f.hs, 16 * f.type, 16 * f.ser + f.comp, 0>>
         \o (IF f.hs = 2 THEN <<0, 0, 0, 0>> ELSE <<>>)
         \o (IF f.type = ERROR_RESPONSE THEN U32(ErrCode) ELSE <<>>)
         \o U32(Len(body)) \o body

\* The result fields when a message arrives: nothing yet, a partial text, or
\* a partial and a final text.
ResultsSoFar == {<<"", None>>, <<"a", None>>, <<"a", "b">>}

ParseInit ==
    /\ path_exists = TRUE
    /\ ConstructedCall
    /\ connected_event = TRUE
    /\ ready_event \in BOOLEAN
    /\ \E r \in ResultsSoFar : current_result = r[1] /\ final_result = r[2]
    /\ ChunkIdle
    /\ frame \in ServerFrames
    /\ inbound \in {PySlice(ServerEncode(frame), 0, n) : n \in 0 .. Len(ServerEncode(frame))}
    /\ parsed = NotParsed
    /\ handled = FALSE
    /\ file_size = 1
    /\ EncoderIdle
    /\ LoadIdle
    /\ UtilIdle

\* response = self._parse_server_response(message)   (line 256)
ParseStep ==
    /\ parsed = NotParsed
    /\ parsed' = _parse_server_response(inbound)
    /\ UNCHANGED <<frame, inbound, handled, call, encoded>>
    /\ UNCHANGED <<callVars, batchVars, sessionVars, listenerVars, localVars, histVars,
                   chunkVars, fileVars, loadVars, utilVars, failVars>>

\* The rest of _on_ws_message (lines 257-298) on the outcome of the parser.
DispatchStep ==
    /\ parsed # NotParsed
    /\ ~handled
    /\ handled' = TRUE
    /\ LET m == MessageOf(parsed)
       IN /\ ready_event' = ReadyAfter(m, ready_event)
          /\ current_result' = CurrentAfter(m, current_result)
          /\ final_result' = FinalAfter(m, final_result)
    /\ UNCHANGED <<frame, inbound, parsed, call, encoded>>
    /\ UNCHANGED <<ws, ws_thread, stop_event, connected_event, sequence_number>>
    /\ UNCHANGED <<callVars, batchVars, listenerVars, localVars, histVars,
                   chunkVars, fileVars, loadVars, utilVars, failVars>>

NextParse == ParseStep \/ DispatchStep

SpecParse == ParseInit /\ [][NextParse]_vars

\* --------------------------------------------- frame encoding on its own
\* The three encoders applied to their arguments: _build_header to every
\* value of the four enumerations, _build_full_client_request, and
\* _build_audio_request to every buffer and both values of is_last.
MessageTypes == {FULL_CLIENT_REQUEST, AUDIO_ONLY_REQUEST, FULL_SERVER_RESPONSE, ERROR_RESPONSE}
MessageFlagsValues == {0, 1, 2, 3}
SerializationMethods == {NONE, JSON}
CompressionTypes == {NONE, GZIP}

EncoderCalls ==
    {[fn |-> "header", msg_type |-> t, flags |-> g, serialization |-> z, compression |-> c] :
        t \in MessageTypes, g \in MessageFlagsValues,
        z \in SerializationMethods, c \in CompressionTypes}
    \cup {[fn |-> "config"]}
    \cup {[fn |-> "audio", audio_data |-> b, is_last |-> l] : b \in Buffers, l \in BOOLEAN}

EncodeInit ==
    /\ path_exists = TRUE
    /\ file_size = 1
    /\ Constructed
    /\ ChunkIdle
    /\ CodecIdle
    /\ call \in EncoderCalls
    /\ encoded = NotEncoded
    /\ LoadIdle
    /\ UtilIdle

EncodeStep ==
    /\ encoded = NotEncoded
    /\ encoded' = CASE call.fn = "header" ->
                         _build_header(call.msg_type, call.flags, call.serialization,
                                       call.compression)
                    [] call.fn = "config" -> _build_full_client_request
                    [] call.fn = "audio" -> _build_audio_request(call.audio_data, call.is_last)
    /\ UNCHANGED <<frame, inbound, parsed, handled, call>>
    /\ UNCHANGED <<callVars, batchVars, sessionVars, listenerVars, localVars, histVars,
                   chunkVars, fileVars, loadVars, utilVars, failVars>>

NextEncode == EncodeStep

SpecEncode == EncodeInit /\ [][NextEncode]_vars

\* --------------------------------------------- audio decoding on its own
\* _load_audio_file applied to a path that exists or does not, with each of
\* the two ffmpeg runs failing or writing any PCM buffer to its stdout.
RunResults ==
    {RunResult(FALSE, <<>>)}
        \cup {RunResult(TRUE, o) : o \in UNION {[1 .. n -> Bytes] : n \in 0 .. MaxAudio}}

LoadInit ==
    /\ path_exists = TRUE
    /\ file_size = 1
    /\ Constructed
    /\ ChunkIdle
    /\ CodecIdle
    /\ EncoderIdle
    /\ ffmpeg \in [exists : BOOLEAN, hw : RunResults, sw : RunResults]
    /\ loaded = NotLoaded
    /\ UtilIdle

LoadStep ==
    /\ loaded = NotLoaded
    /\ loaded' = _load_audio_file(ffmpeg.exists, ffmpeg.hw, ffmpeg.sw)
    /\ UNCHANGED ffmpeg
    /\ UNCHANGED <<callVars, batchVars, sessionVars, listenerVars, localVars, histVars,
                   chunkVars, codecVars, fileVars, failVars, utilVars>>

NextLoad == LoadStep

SpecLoad == LoadInit /\ [][NextLoad]_vars

\* --------------------------------------------- download_video on its own
\* download_video applied to an identifier with or without the BV prefix,
\* with and without a proxy argument and a proxy of the environment, with
\* every outcome of the two you-get runs and every set of files found in
\* the output directory.
Identifiers == {<<49, 50>>, BV \o <<49, 50>>, BV}
ProxyArguments == {None, "", "p"}
ProxySettings == {"", "e"}
RunOutcomes == {"ok", "fail", "raise"}
FileKinds == {"mp4", "flv", "mkv", "xml"}
Downloads ==
    [bv_number : Identifiers, use_proxy : ProxyArguments, env_proxy : ProxySettings,
     run1 : RunOutcomes, run2 : RunOutcomes, files : SUBSET FileKinds]

DownloadInit ==
    /\ path_exists = TRUE
    /\ file_size = 1
    /\ Constructed
    /\ ChunkIdle
    /\ CodecIdle
    /\ EncoderIdle
    /\ LoadIdle
    /\ download \in Downloads
    /\ downloaded = NotDownloaded
    /\ request = <<>>
    /\ api = NotHandling

DownloadStep ==
    /\ downloaded = NotDownloaded
    /\ downloaded' = download_video(download.bv_number, download.use_proxy,
                                    download.env_proxy, download.run1, download.run2,
                                    download.files)
    /\ UNCHANGED <<download, request, api>>
    /\ UNCHANGED <<callVars, batchVars, sessionVars, listenerVars, localVars, histVars,
                   chunkVars, codecVars, fileVars, loadVars, failVars>>

NextDownload == DownloadStep

SpecDownload == DownloadInit /\ [][NextDownload]_vars

\* ------------------------------------------------- the /api/convert handler
\* convert_video (src/api.py, lines 61-117) on a request, with every
\* outcome of download_video, process_audio_split and run_analysis.
\* str.find(sub, start): the lowest index at or after start, or -1.
Find(s, sub, start) ==
    LET at == {k \in start .. (Len(s) - Len(sub)) : SubSeq(s, k + 1, k + Len(sub)) = sub}
    IN IF at = {} THEN 0 - 1 ELSE CHOOSE k \in at : \A j \in at : k <= j
\* "?"
QuestionMark == <<63>>

\* The video_url of a request.
VideoUrls == {
    \* v/BV1234567890
    <<118, 47, 66, 86, 49, 50, 51, 52, 53, 54, 55, 56, 57, 48>>,
    \* v/BV1234567890?p=2
    <<118, 47, 66, 86, 49, 50, 51, 52, 53, 54, 55, 56, 57, 48, 63, 112, 61, 50>>,
    \* v/av170001
    <<118, 47, 97, 118, 49, 55, 48, 48, 48, 49>>,
    \* v/BV12345
    <<118, 47, 66, 86, 49, 50, 51, 52, 53>>,
    \* v/BV12345?p=1234567
    <<118, 47, 66, 86, 49, 50, 51, 52, 53, 63, 112, 61, 49, 50, 51, 52, 53, 54, 55>>,
    \* u?q=BV1234567890
    <<117, 63, 113, 61, 66, 86, 49, 50, 51, 52, 53, 54, 55, 56, 57, 48>>,
    \* u?q=BV1234567890a
    <<117, 63, 113, 61, 66, 86, 49, 50, 51, 52, 53, 54, 55, 56, 57, 48, 97>>}

\* lines 70-73: the text from the first "BV" to the "?" that follows it.
bv_code_of(video_url) ==
    LET bv_start == Find(video_url, BV, 0)
        bv_end == IF Find(video_url, QuestionMark, 0) # 0 - 1
                    THEN Find(video_url, QuestionMark, bv_start)
                    ELSE Len(video_url)
    IN PySlice(video_url, bv_start, bv_end)

\* What process_audio_split and run_analysis do: return a value that is
\* true, return one that is false (an empty string), or raise.
CallOutcomes == {"ok", "empty", "raise"}
\* The text run_analysis returns.
Recognized == "t"

\* A response: the status of the HTTPException, or 200 with the body.
Response(status, success, text) == [status |-> status, success |-> success, text |-> text]
NoResponse == Response(0, FALSE, "")

Handling(pc_, calls, audio, recognition, response) ==
    [pc |-> pc_, calls |-> calls, audio |-> audio, recognition |-> recognition,
     response |-> response]

ConvertInit ==
    /\ path_exists = TRUE
    /\ file_size = 1
    /\ Constructed
    /\ ChunkIdle
    /\ CodecIdle
    /\ EncoderIdle
    /\ LoadIdle
    /\ download = [bv_number |-> <<>>, use_proxy |-> None, env_proxy |-> "",
                   run1 |-> "ok", run2 |-> "ok", files |-> {}]
    /\ downloaded = NotDownloaded
    /\ request \in VideoUrls
    /\ api = Handling("check", <<>>, "none", "none", NoResponse)

\* lines 67-75: the two tests of the URL.
ConvertCheck ==
    /\ api.pc = "check"
    /\ api' = IF Find(request, BV, 0) = 0 - 1 \/ Len(bv_code_of(request)) < 12
                THEN [api EXCEPT !.pc = "done", !.response = Response(400, FALSE, "")]
                ELSE [api EXCEPT !.pc = "download"]
    /\ UNCHANGED <<download, downloaded, request>>
    /\ UNCHANGED <<callVars, batchVars, sessionVars, listenerVars, localVars, histVars,
                   chunkVars, codecVars, fileVars, loadVars, failVars>>

\* lines 78-82: filename = download_video(bv_code[2:]), called without a
\* proxy argument; env_proxy, run1, run2, files: as in Downloads.
ConvertDownload(env_proxy, run1, run2, files) ==
    /\ api.pc = "download"
    /\ download' = [bv_number |-> PySlice(bv_code_of(request), 2, Len(bv_code_of(request))),
                    use_proxy |-> None, env_proxy |-> env_proxy,
                    run1 |-> run1, run2 |-> run2, files |-> files]
    /\ downloaded' = download_video(download'.bv_number, None, env_proxy, run1, run2, files)
    /\ api' = IF downloaded'.ret = <<>>
                THEN [api EXCEPT !.pc = "done", !.calls = Append(@, "download"),
                                 !.response = Response(500, FALSE, "")]
                ELSE [api EXCEPT !.pc = "audio", !.calls = Append(@, "download")]
    /\ UNCHANGED request
    /\ UNCHANGED <<callVars, batchVars, sessionVars, listenerVars, localVars, histVars,
                   chunkVars, codecVars, fileVars, loadVars, failVars>>

\* lines 85-89: foldername = process_audio_split(filename, skip_split=True);
\* an exception is turned into a 500 response by lines 113-115.
ConvertAudio(o) ==
    /\ api.pc = "audio"
    /\ api' = IF o = "ok"
                THEN [api EXCEPT !.pc = "recognize", !.calls = Append(@, "audio"),
                                 !.audio = o]
                ELSE [api EXCEPT !.pc = "done", !.calls = Append(@, "audio"), !.audio = o,
                                 !.response = Response(500, FALSE, "")]
    /\ UNCHANGED <<download, downloaded, request>>
    /\ UNCHANGED <<callVars, batchVars, sessionVars, listenerVars, localVars, histVars,
                   chunkVars, codecVars, fileVars, loadVars, failVars>>

\* The last step reporting an empty text as a success.
ConvertRecognize_emptyIsSuccess(o) ==
    /\ api.pc = "recognize"
    /\ api' = IF o # "raise"
                THEN [api EXCEPT !.pc = "done", !.calls = Append(@, "recognize"),
                                 !.recognition = o,
                                 !.response = Response(200, TRUE,
                                                       IF o = "ok" THEN Recognized ELSE "")]
                ELSE [api EXCEPT !.pc = "done", !.calls = Append(@, "recognize"),
                                 !.recognition = o,
                                 !.response = Response(500, FALSE, "")]
    /\ UNCHANGED <<download, downloaded, request>>
    /\ UNCHANGED <<callVars, batchVars, sessionVars, listenerVars, localVars, histVars,
                   chunkVars, codecVars, fileVars, loadVars, failVars>>

\* lines 92-108: result = run_analysis(...); a result that is empty and an
\* exception give a 500 response, a text the success response.
ConvertRecognize(o) ==
    /\ api.pc = "recognize"
    /\ api' = IF o = "ok"
                THEN [api EXCEPT !.pc = "done", !.calls = Append(@, "recognize"),
                                 !.recognition = o,
                                 !.response = Response(200, TRUE, Recognized)]
                ELSE [api EXCEPT !.pc = "done", !.calls = Append(@, "recognize"),
                                 !.recognition = o,
                                 !.response = Response(500, FALSE, "")]
    /\ UNCHANGED <<download, downloaded, request>>
    /\ UNCHANGED <<callVars, batchVars, sessionVars, listenerVars, localVars, histVars,
                   chunkVars, codecVars, fileVars, loadVars, failVars>>

NextConvert ==
    \/ ConvertCheck
    \/ \E env_proxy \in ProxySettings, run1 \in RunOutcomes, run2 \in RunOutcomes,
          files \in SUBSET FileKinds : ConvertDownload(env_proxy, run1, run2, files)
    \/ \E o \in CallOutcomes : ConvertAudio(o)
    \/ \E o \in CallOutcomes : ConvertRecognize(o)

SpecConvert == ConvertInit /\ [][NextConvert]_vars

\* ================================================================ claims
\* A frame on the socket, read as a receiver reads it: the type nibble of
\* the header and the bytes after the header and the size field.
TypeOf(f) == Hi(f[2])
PayloadOf(f) == SubSeq(f, 9, Len(f))
IsAudio(f) == TypeOf(f) = AUDIO_ONLY_REQUEST
IsChunk(f) == IsAudio(f) /\ PayloadOf(f) # <<>>
IsEos(f) == IsAudio(f) /\ PayloadOf(f) = <<>>
IsConfig(f) == TypeOf(f) = FULL_CLIENT_REQUEST
\* Input offset of a chunk frame: byte k of a decoded buffer is k.
Offset(f) == PayloadOf(f)[1] - 1
\* ceil(n / c)
CeilDiv(n, c) == (n + c - 1) \div c
\* The chunks of a buffer, in input order.
ChunksOf(data) ==
    [k \in 1 .. CeilDiv(Len(data), chunk_size) |-> Slice(data, (k - 1) * chunk_size, chunk_size)]
\* The payloads of the chunk frames among the first n frames of w.
ChunkPayloads(w, n) ==
    LET cs == SelectSeq(SubSeq(w, 1, n), IsChunk) IN [k \in 1 .. Len(cs) |-> PayloadOf(cs[k])]
RECURSIVE Concat(_)
Concat(ss) == IF ss = <<>> THEN <<>> ELSE Head(ss) \o Concat(Tail(ss))

\* The call is over and it was the Streaming Engine that returned the text.
StreamCompleted == pc = "done" /\ outcome = "returned" /\ retval # None

\* C1: when the batch attempt failed, recognize_audio_file_ws was called; a
\* text returned by the call is the text the Streaming Engine returned, and
\* an error raised by the call was raised by the Streaming Engine, never by
\* the Batch Engine.
C1_BatchFailureFallsBack ==
    (pc = "done" /\ batch = "failed") =>
        /\ wsCalls >= 1
        /\ outcome = "returned" => (retval # None /\ result = retval)
        /\ outcome = "raised" => errFrom = "stream"

C1_Witness ==
    /\ pc = "done" /\ batch = "failed" /\ posts = 1
    /\ outcome = "returned" /\ result = "b" /\ attempt = 1

\* C2: in one recognize_audio_file call the Streaming Engine is started at
\* most once (at most one socket is opened).
C2_StreamingAtMostOnce == attempt <= 1

\* C3: for a path that does not exist no HTTP request is issued, no socket
\* is opened, no listener is started, no text is returned, and the call ends
\* with the not-found error.
C3_NotFoundNoNetwork ==
    ~path_exists =>
        /\ posts = 0
        /\ attempt = 0 /\ ws = 0 /\ sock = "none" /\ wire = <<>>
        /\ \A a \in Attempts : lst[a] = "unborn"
        /\ outcome # "returned" /\ result = None
        /\ pc = "done" => (outcome = "raised" /\ exc = "FileNotFoundError")

C3_Witness ==
    ~path_exists /\ pc = "done" /\ outcome = "raised" /\ wsCalls = 1

\* C4: the driver gets past the connect wait only with the connected signal
\* set; while the signal is unset no audio frame (chunk or end-of-stream) is
\* on the socket, and an attempt that failed by the connect timeout wrote
\* none and returned nothing.
C4_ConnectTimeoutIsFatal ==
    /\ (pc \in Live \ {"ws_connect_wait"}) => connected_event
    /\ (attempt >= 1 /\ ~connected_event) => \A k \in DOMAIN wire : ~IsAudio(wire[k])
    /\ wsErr = "RuntimeError" =>
          /\ \A k \in DOMAIN wire : ~IsAudio(wire[k])
          /\ retval = None
          /\ pc \notin Live

C4_Witness ==
    /\ wsErr = "RuntimeError" /\ ~connected_event
    /\ pc = "done" /\ outcome = "raised" /\ exc = "RuntimeError"

\* C5: when the ready wait ends, with the ready signal set or not, the
\* driver goes on to load and send the audio; it raises nothing there.
C5_ReadyTimeoutNonFatal ==
    [][(pc = "ws_ready_wait" /\ pc' # pc) => (pc' = "ws_load" /\ wsErr' = "none")]_vars

C5_Witness ==
    pc = "ws_send" /\ connected_event /\ ~ready_event /\ wsErr = "none"

\* C6: an attempt in which no final result was recorded and whose partial
\* result, unchanged since the poll loop ended, is non-empty used the whole
\* budget and returned that partial text.
C6_PartialSubstituted ==
    (StreamCompleted /\ nFinals = 0 /\ ~latePartial /\ current_result # "") =>
        /\ result = current_result
        /\ wait_time = max_wait
        /\ wsErr = "none"

C6_Witness ==
    /\ StreamCompleted /\ nFinals = 0 /\ ~latePartial
    /\ current_result = "a" /\ result = "a" /\ wait_time = max_wait

\* C7: an attempt in which no final result was recorded and whose partial
\* result is empty returned the empty string; an attempt that used up the
\* poll budget did not fail.
C7_EmptyOnTimeout ==
    /\ (StreamCompleted /\ nFinals = 0 /\ ~latePartial /\ current_result = "") =>
          (result = "" /\ wait_time = max_wait)
    /\ (attempt >= 1 /\ wait_time = max_wait) =>
          (wsErr = "none" /\ (pc = "done" => outcome = "returned"))

C7_Witness ==
    /\ StreamCompleted /\ nFinals = 0 /\ ~latePartial /\ current_result = ""
    /\ result = "" /\ wait_time = max_wait /\ msgs = 0

\* C8: an attempt in which exactly one final result T was recorded, and that
\* before the driver's post-loop check, returned T.
C8_FinalReturned ==
    (StreamCompleted /\ nFinals = 1 /\ ~lateFinal) => result = firstFinal

C8_Witness ==
    /\ StreamCompleted /\ nFinals = 1 /\ ~lateFinal
    /\ ready_event /\ current_result = "a" /\ result = "b"
    /\ \E j, k \in DOMAIN wire : j < k /\ IsConfig(wire[j]) /\ IsEos(wire[k])
    /\ ChunkPayloads(wire, Len(wire)) = ChunksOf(audio_data) /\ Len(audio_data) > chunk_size

\* C9: on the socket of an attempt the chunk frames are in strictly
\* increasing input-offset order, an end-of-stream frame comes only after
\* every chunk of the buffer was written, and no chunk frame follows it.
C9_ChunksInOrder ==
    \A j, k \in DOMAIN wire :
        (j < k /\ IsChunk(wire[j]) /\ IsChunk(wire[k])) => Offset(wire[j]) < Offset(wire[k])
C9_NoChunkAfterEos ==
    \A j, k \in DOMAIN wire : (j < k /\ IsEos(wire[j])) => ~IsChunk(wire[k])
C9_EosAfterAllChunks ==
    \A k \in DOMAIN wire :
        IsEos(wire[k]) => ChunkPayloads(wire, k - 1) = ChunksOf(audio_data)
\* C9: audio frames are written in strictly increasing offset order, the
\* end-of-stream frame is written only after every chunk of the buffer was
\* written, and no chunk frame follows the end-of-stream frame.
C9_AudioInOrderThenEos ==
    C9_ChunksInOrder /\ C9_EosAfterAllChunks /\ C9_NoChunkAfterEos

\* C10: the loop run to its end produced ceil(N/C) chunks whose
\* concatenation is the buffer, each of 1 to C bytes and all but the last
\* of C bytes.
C10_Chunking ==
    cdone =>
        /\ Len(chunks) = CeilDiv(Len(buf), chunk_size)
        /\ Concat(chunks) = buf
        /\ \A k \in DOMAIN chunks : Len(chunks[k]) >= 1 /\ Len(chunks[k]) <= chunk_size
        /\ \A k \in DOMAIN chunks : k < Len(chunks) => Len(chunks[k]) = chunk_size

C10_Witness ==
    /\ cdone /\ Len(chunks) = 3 /\ Len(chunks[3]) < chunk_size
    /\ Len(buf) = 2 * chunk_size + 1

\* The driver waits for the result of the attempt or is past the wait.
AwaitingResult == Live \ Sending
\* The last attempt that started was torn down (its finally clause ran).
TornDown == attempt >= 1 /\ pc \notin Live

\* C11: when the driver of an attempt is in the result wait, an empty
\* end-of-stream frame is on the socket and no chunk frame follows it.
C11_EosBeforeAwaiting ==
    pc \in AwaitingResult =>
        \E k \in DOMAIN wire :
            IsEos(wire[k]) /\ \A j \in DOMAIN wire : j > k => ~IsChunk(wire[j])

\* C12: a call whose last streaming attempt had a send of the configuration
\* frame, of a chunk or of the end-of-stream frame fail, or lost its
\* connection while it was sending, ended with the error of the Streaming
\* Engine raised to the caller and with no text returned.
C12_SendErrorIsFatal ==
    (pc = "done" /\ sendFail # "none") =>
        (outcome = "raised" /\ errFrom = "stream" /\ result = None)

\* C13: once an attempt that started is over, by return or by any
\* exception, the stop signal is set, the handle of the socket is cleared
\* and the socket is not connected; the exit does not wait for the listener.
C13_CleanupOnEveryExit ==
    TornDown => (stop_event /\ ws = 0 /\ sock # "connected")

C13_Witness ==
    /\ pc = "done" /\ outcome = "raised" /\ wsErr = "CalledProcessError"
    /\ stop_event /\ ws = 0 /\ sock = "closed"
    /\ \E a \in Attempts : lst[a] = "draining"

\* C14: once an attempt was torn down, the connected and ready signals are
\* cleared, the partial result is empty, the final result is absent, the
\* sequence counter is 0 and no listener handle is retained.
C14_TornDownSessionReset ==
    TornDown =>
        /\ ~connected_event /\ ~ready_event
        /\ current_result = "" /\ final_result = None
        /\ sequence_number = 0
        /\ ws_thread = 0

\* A response of the batch request was received and is still at hand.
BatchAnswered == posts = 1 /\ http_hdr # "none"

C16_AtMostOnePost == posts <= 1

C16_Witness ==
    /\ pc = "done" /\ posts = 1 /\ batch = "failed"
    /\ attempt = 2 /\ outcome = "raised"

\* C17: a call on an existing file that ended raised its error only after
\* the batch attempt and a streaming attempt both failed; otherwise it
\* returned a text.
C17_ErrorOnlyWhenBothFailed ==
    (path_exists /\ pc = "done") =>
        /\ outcome = "raised" =>
              (batch = "failed" /\ attempt >= 1 /\ wsErr # "none" /\ errFrom = "stream")
        /\ outcome # "raised" => (outcome = "returned" /\ result \in Texts)

C17_Witness ==
    /\ path_exists /\ pc = "done" /\ outcome = "raised"
    /\ batch = "failed" /\ posts = 1 /\ wsErr = "SendError"

\* The frame has a header-length nibble of at least 1 and one of the two
\* server types (its declared size is the length of its body).
WellFormed(f) == f.hs >= 1 /\ f.type \in {FULL_SERVER_RESPONSE, ERROR_RESPONSE}
\* The parser was handed the whole frame / fewer bytes than the frame has.
Whole == inbound = ServerEncode(frame)
Truncated == Len(inbound) < Len(ServerEncode(frame))
\* The body of the frame is decoded to a JSON value by lines 206-218.
DecodesToJson(f) ==
    /\ f.ser = JSON
    /\ f.comp = GZIP => f.gz
    /\ f.doc \in {DocOk, DocOtherCode, DocNoCode, DocList, DocTen}

\* C18: _parse_server_response applied to a proper prefix of a well-formed
\* frame returns None: it does not raise and returns neither a parsed
\* result nor an error value.
C18_TruncatedIsNeedMore ==
    (parsed # NotParsed /\ WellFormed(frame) /\ Truncated) => parsed = ReturnsNone

C18_Witness ==
    /\ parsed = ReturnsNone /\ WellFormed(frame) /\ frame.type = FULL_SERVER_RESPONSE
    /\ frame.ser = JSON /\ frame.comp = 0 /\ frame.doc = DocTen
    /\ Len(inbound) = Len(ServerEncode(frame)) - 1

\* C19: _parse_server_response returns None, an error value or a parsed
\* result for every inbound binary message; it never raises.
C19_DecodingNeverRaises == parsed.kind \in {"idle", "none", "error", "ok"}

\* C20, first part: a parsed result that is not an error value is returned
\* only for a whole FULL_SERVER_RESPONSE frame whose JSON object declares
\* code 1000.
C20_SuccessOnlyForCode1000 ==
    parsed.kind = "ok" =>
        /\ Whole /\ frame.type = FULL_SERVER_RESPONSE /\ frame.doc = DocOk
        /\ parsed.val = JsonValue("dict", TRUE, 1000)
\* C20, second part: a whole frame whose JSON value declares another code,
\* declares no code or is not an object is returned as an error value.
C20_OtherJsonIsError ==
    (parsed # NotParsed /\ Whole /\ frame.hs >= 1 /\ frame.type = FULL_SERVER_RESPONSE
       /\ DecodesToJson(frame) /\ frame.doc # DocOk) => parsed.kind = "error"
\* C20, third part: a whole frame of type ERROR_RESPONSE is returned as an
\* error value.
C20_ErrorResponseIsError ==
    (parsed # NotParsed /\ Whole /\ frame.hs >= 1 /\ frame.type = ERROR_RESPONSE)
        => parsed.kind = "error"
\* C20: _parse_server_response returns a non-error parsed result only for a
\* FULL_SERVER_RESPONSE frame whose JSON object declares code 1000; a frame
\* with another code, with no code, with a JSON value that is not an object,
\* or of type ERROR_RESPONSE is returned as an error value.
C20_OnlyCode1000IsSuccess ==
    C20_SuccessOnlyForCode1000 /\ C20_OtherJsonIsError /\ C20_ErrorResponseIsError

\* The nibbles the decoder reads from a header (lines 176, 177, 206, 215).
DecodedType(h) == Hi(h[2])
DecodedHeaderSize(h) == Lo(h[1])
DecodedSerialization(h) == Hi(h[3])
DecodedCompression(h) == Lo(h[3])

\* C21: the nibbles the decoder reads from a header built by _build_header
\* are the message type, serialization and compression it was built with,
\* and the header-length nibble is 1; the configuration frame reads as
\* FULL_CLIENT_REQUEST / JSON / GZIP with header-length nibble 1.
C21_HeaderRoundTrip ==
    /\ (call.fn = "header" /\ encoded # NotEncoded) =>
          /\ Len(encoded) = 4
          /\ DecodedType(encoded) = call.msg_type
          /\ DecodedSerialization(encoded) = call.serialization
          /\ DecodedCompression(encoded) = call.compression
          /\ DecodedHeaderSize(encoded) = 1
    /\ (call.fn = "config" /\ encoded # NotEncoded) =>
          /\ DecodedType(encoded) = FULL_CLIENT_REQUEST
          /\ DecodedSerialization(encoded) = JSON
          /\ DecodedCompression(encoded) = GZIP
          /\ DecodedHeaderSize(encoded) = 1

C21_Witness ==
    /\ call.fn = "header" /\ encoded # NotEncoded
    /\ call.msg_type = ERROR_RESPONSE /\ call.flags = 3
    /\ call.serialization = JSON /\ call.compression = GZIP
    /\ encoded = <<17, 243, 17, 0>>

\* C22: a frame built by an encoder is 4 header bytes (header-length nibble
\* 1), then 4 bytes that are the big-endian number of the bytes after them,
\* then the payload it was given.
C22_FrameLayout ==
    (call.fn \in {"config", "audio"} /\ encoded # NotEncoded) =>
        /\ Len(encoded) >= 8
        /\ DecodedHeaderSize(encoded) = 1
        /\ from_bytes(SubSeq(encoded, 5, 8), FALSE) = Len(encoded) - 8
        /\ call.fn = "audio" => SubSeq(encoded, 9, Len(encoded)) = call.audio_data
        /\ call.fn = "config" =>
              gzip_decompress(SubSeq(encoded, 9, Len(encoded))) = [ok |-> TRUE, out |-> ConfigJson]

C22_Witness ==
    /\ call.fn = "audio" /\ call.audio_data = <<>> /\ call.is_last
    /\ encoded = <<17, 32, 0, 0, 0, 0, 0, 0>>

\* C23: _build_audio_request returns the same bytes for is_last = True and
\* is_last = False, with message type AUDIO_ONLY_REQUEST and the flags,
\* serialization and compression nibbles 0.
C23_LastFlagIgnored ==
    (call.fn = "audio" /\ encoded # NotEncoded) =>
        /\ encoded = _build_audio_request(call.audio_data, ~call.is_last)
        /\ DecodedType(encoded) = AUDIO_ONLY_REQUEST
        /\ Lo(encoded[2]) = 0
        /\ DecodedSerialization(encoded) = 0
        /\ DecodedCompression(encoded) = 0

C23_Witness ==
    /\ call.fn = "audio" /\ call.is_last /\ Len(call.audio_data) = chunk_size
    /\ encoded # NotEncoded /\ Lo(encoded[2]) = 0

\* C24: of two audio frames on the socket of an attempt the earlier one is
\* not empty, so that only the last audio frame can be the empty
\* end-of-stream frame; with an empty buffer no audio frame carries bytes.
C24_OnlyLastAudioFrameEmpty ==
    /\ \A j, k \in DOMAIN wire :
          (j < k /\ IsAudio(wire[j]) /\ IsAudio(wire[k])) => ~IsEos(wire[j])
    /\ (pc \in AwaitingResult /\ audio_data = <<>>) =>
          \A k \in DOMAIN wire : IsAudio(wire[k]) => IsEos(wire[k])

C24_Witness ==
    /\ pc = "ws_poll" /\ audio_data = <<>> /\ Len(wire) = 2
    /\ IsConfig(wire[1]) /\ IsEos(wire[2])

\* C25: on the socket of an attempt there is at most one configuration
\* frame, and every audio frame has the configuration frame before it.
C25_ConfigOnceBeforeAudio ==
    /\ \A j, k \in DOMAIN wire : (IsConfig(wire[j]) /\ IsConfig(wire[k])) => j = k
    /\ \A k \in DOMAIN wire :
          IsAudio(wire[k]) => \E j \in DOMAIN wire : j < k /\ IsConfig(wire[j])

\* C26: each field shared by the two threads has one writer.  A step that
\* changes the partial result, the final result, the connected signal or the
\* ready signal is a step of a listener (the driver stays where it is), and
\* a step that changes the sequence counter or writes an audio frame on the
\* socket is a step of the driver (no listener moves).
C26_SingleWriter ==
    [][ /\ (<<connected_event, ready_event, current_result, final_result>>' #
            <<connected_event, ready_event, current_result, final_result>>)
           => UNCHANGED <<callVars, localVars>>
        /\ (\/ sequence_number' # sequence_number
            \/ /\ Len(wire') = Len(wire) + 1
               /\ IsAudio(wire'[Len(wire')]))
           => UNCHANGED lst ]_vars

\* C27: for an audio file that exists and holds zero bytes no HTTP request
\* is issued and no websocket attempt is started.
C27_EmptyFileRejected ==
    (path_exists /\ file_size = 0) => (posts = 0 /\ attempt = 0 /\ wsCalls = 0)

\* The listener has just handled the message it was given.
Handles == ~handled /\ handled'
\* The documents that carry a result item, the text of the item, and
\* whether the item has a final marker.
ResultDocs == {DocPartial, DocFinal, DocFinalDict}
TextOf(doc) == IF doc = DocPartial THEN "a" ELSE "b"
Marked(doc) == doc \in {DocFinal, DocFinalDict}

\* C28: when the listener handles a frame that decoded to a success object
\* carrying a result, then with a final marker the final result becomes the
\* text of the frame and the partial result keeps its value, and without
\* the marker the partial result becomes the text of the frame (whatever it
\* was before) and the final result keeps its value.
C28_ResultUpdatesOneField ==
    [][ (Handles /\ parsed.kind = "ok" /\ frame.doc \in ResultDocs) =>
           IF Marked(frame.doc)
             THEN final_result' = TextOf(frame.doc) /\ current_result' = current_result
             ELSE current_result' = TextOf(frame.doc) /\ final_result' = final_result
      ]_vars

\* A partial frame was handled while a partial text was already stored.
C28_Witness ==
    /\ handled /\ parsed.kind = "ok" /\ frame.doc = DocPartial
    /\ current_result = "a" /\ final_result = "b"

\* A frame of type ERROR_RESPONSE, or a server response whose status is not
\* the success status.
ErrorFrame ==
    \/ frame.type = ERROR_RESPONSE
    \/ frame.type = FULL_SERVER_RESPONSE /\ frame.doc \in {DocOtherCode, DocErrResult}

\* C29: when the listener handles an error frame, the connected and ready
\* signals and the partial and final result keep their values, and the
\* driver is where it was, with no error raised in it.
C29_ErrorFrameLeavesSession ==
    [][ (Handles /\ ErrorFrame) =>
           UNCHANGED <<connected_event, ready_event, current_result, final_result,
                       pc, outcome, exc, wsErr, stop_event>> ]_vars

\* An error frame with a result item was decoded to an error value and
\* handled before the server was ready.
C29_Witness ==
    /\ handled /\ parsed.kind = "error" /\ frame.doc = DocErrResult
    /\ frame.type = FULL_SERVER_RESPONSE
    /\ ~ready_event /\ current_result = "" /\ final_result = None

\* C30: while an attempt is under way, the ready signal is set only if the
\* connected signal is set (the ready signal comes from a success frame
\* that the listener of this attempt received on its open connection).
C30_ReadyImpliesConnected ==
    (pc \in Live /\ ready_event) => connected_event

\* C31: a call of recognize_audio_file on an existing file ends: it returns
\* a text or raises to its caller.
C31_CallTerminates == path_exists => <>(pc = "done" /\ outcome \in {"returned", "raised"})

\* A call that went through both waits and the whole poll loop has returned.
C31_Witness ==
    /\ path_exists /\ pc = "done" /\ outcome = "returned"
    /\ wait_time = max_wait

\* The driver takes a step.
DriverStep == <<callVars, localVars>>' # <<callVars, localVars>>

\* C32: the result wait sleeps only while its budget of max_wait polls is
\* not used up and no final result is present, so it sleeps at most
\* max_wait times; a poll that finds a final result leaves the loop at
\* once; and when the post-loop check finds a final result (also one that
\* arrived during the last sleep), the attempt goes on to return the final
\* result, not the partial one.
C32_BoundedPollReturnsFinal ==
    [][ /\ (pc = "ws_poll" /\ wait_time' # wait_time) =>
              /\ wait_time < max_wait /\ final_result = None
              /\ wait_time' = wait_time + 1 /\ pc' = "ws_poll"
        /\ (pc = "ws_poll" /\ DriverStep /\ final_result # None) =>
              pc' = "ws_post_check" /\ wait_time' = wait_time
        /\ (pc = "ws_post_check" /\ DriverStep /\ final_result # None) =>
              pc' = "ws_return" /\ final_result' = final_result
        /\ (pc = "ws_return" /\ DriverStep) =>
              (outcome' = "returned" /\ result' = final_result)
      ]_vars

\* The whole budget was used, the one final result arrived before the
\* post-loop check and was returned, although a partial result was there.
C32_Witness ==
    /\ pc = "done" /\ outcome = "returned" /\ wait_time = max_wait
    /\ nFinals = 1 /\ ~lateFinal /\ result = "b" /\ current_result = "a"

\* C33: when a listener recorded one final result during the attempt that
\* returned, whether before or after the post-loop check of the driver, the
\* text returned is that final result.
C33_FinalNeverOverwritten ==
    (StreamCompleted /\ nFinals = 1) => result = firstFinal

\* C34: while an attempt is under way, a callback run by the listener of an
\* earlier attempt changes neither the connected and ready signals nor the
\* partial and final result.
C34_AttemptsIsolated ==
    [][ \A a \in Attempts :
           (pc \in Live /\ a < attempt /\ lst'[a] # lst[a]) =>
               UNCHANGED <<connected_event, ready_event, current_result, final_result>>
      ]_vars

\* C35: when the Streaming Engine returned a text, the chunk frames written
\* on the socket of that attempt are the ceil(N/C) chunks of the buffer.
C35_CompletedSentEveryChunk ==
    StreamCompleted => ChunkPayloads(wire, Len(wire)) = ChunksOf(audio_data)

\* The response of the batch request has the success status and a JSON body.
BatchSucceeds == BatchAnswered /\ http_hdr = SUCCESS_STATUS /\ http_body.json

\* C36: a batch response with the success status is returned to the caller
\* at once, as the empty string when its text is empty or missing, and
\* recognize_audio_file_ws is not called; recognize_audio_file_ws is called
\* only when the batch attempt failed.
C36_BatchSuccessIsFinal ==
    /\ BatchSucceeds =>
          /\ pc = "done" /\ outcome = "returned"
          /\ result = (IF http_body.text \in {None, ""} THEN "" ELSE http_body.text)
          /\ wsCalls = 0 /\ attempt = 0
    /\ (wsCalls >= 1 \/ attempt >= 1 \/ pc \in Live) => batch = "failed"

\* A success response without result.text was returned as the empty string.
C36_Witness ==
    /\ BatchSucceeds /\ http_body.text = None
    /\ pc = "done" /\ outcome = "returned" /\ result = "" /\ wsCalls = 0

ProxyInUse ==
    IF download.use_proxy # None THEN download.use_proxy # "" ELSE download.env_proxy # ""
LastRunSucceeded ==
    IF Len(downloaded.runs) = 2 THEN download.run2 = "ok" ELSE download.run1 = "ok"
VideoFileExists == download.files \cap {"mp4", "flv", "mkv"} # {}

NoValidBvCode ==
    LET b == Find(request, BV, 0)
        q == IF b = 0 - 1 THEN 0 - 1 ELSE Find(request, QuestionMark, b)
    IN \/ b = 0 - 1
       \/ (IF q = 0 - 1 THEN Len(request) ELSE q) - b < 12
\* The steps of the handler, in their order.
Steps == <<"download", "audio", "recognize">>
\* The step that was called last failed.
LastStepFailed ==
    \/ api.calls = <<"download">> /\ downloaded.ret = <<>>
    \/ api.calls = <<"download", "audio">> /\ api.audio # "ok"
    \/ api.calls = Steps /\ api.recognition # "ok"

\* C39: the handler calls download, audio processing and recognition in
\* that order; a URL without a valid BV code is answered with 400 and no
\* step is called; a step that fails is the last one called and the answer
\* is 500; the success response is given only after the three steps, with
\* a text that is not empty, and an empty recognition result gives 500.
C39_ConvertStopsAtFirstFailure ==
    api.pc # "idle" =>
        /\ api.calls = SubSeq(Steps, 1, Len(api.calls))
        /\ (NoValidBvCode /\ api.pc # "check") =>
              (api.pc = "done" /\ api.response.status = 400)
        /\ api.response.status = 400 => api.calls = <<>>
        /\ LastStepFailed => (api.pc = "done" /\ api.response.status = 500)
        /\ api.response.status = 500 => (LastStepFailed /\ ~api.response.success)
        /\ api.response.success =>
              /\ api.response.status = 200 /\ api.calls = Steps /\ ~LastStepFailed
              /\ api.response.text # ""
        /\ api.pc = "done" => api.response.status \in {200, 400, 500}

\* Download and audio processing succeeded, recognition returned an empty
\* text: the three steps were called and the answer is 500.
C39_Witness ==
    /\ api.pc = "done" /\ api.calls = Steps /\ api.recognition = "empty"
    /\ downloaded.ret # <<>> /\ api.audio = "ok"
    /\ api.response.status = 500

\* C40: the sequence counter is 0 in every state, and no frame written on
\* the socket carries it: no frame has a sequence flag in its header, and
\* every frame is its header, its size field and as many bytes as the size
\* field says, with nothing between them.
C40_SequenceCounterUnused ==
    /\ sequence_number = 0
    /\ \A k \in DOMAIN wire :
          /\ Lo(wire[k][2]) \notin {SEQUENCE_NUMBER, SEQUENCE_NUMBER_LAST}
          /\ Len(wire[k]) = 8 + from_bytes(PySlice(wire[k], 4, 8), FALSE)

\* The second attempt of a call has written its configuration frame, a
\* chunk and the end-of-stream frame, and the counter is still 0.
C40_Witness ==
    /\ attempt = 2 /\ pc = "ws_poll" /\ sequence_number = 0
    /\ \E j, k \in DOMAIN wire : j < k /\ IsChunk(wire[j]) /\ IsEos(wire[k])
    /\ \E k \in DOMAIN wire : IsConfig(wire[k])

====
